---- MODULE Spec2Model ----
(***************************************************************************)
(* Dorman Lakely's Critical Hit & Fumble Tables: the table-selection and   *)
(* effect-resolution engine (EffectsManager, TableSelector, constants),    *)
(* the attack-event adapter (MidiQolHooks) and the table importer as       *)
(* a state machine.  Host objects (actors, tokens, settings, the combat    *)
(* clock) are the state; every handler is one action; the host calls a     *)
(* handler issues are recorded, in order, in `calls`.                      *)
(*                                                                         *)
(* JavaScript values: an object is a record that holds exactly the fields  *)
(* that are present (an absent optional field is a field outside DOMAIN);  *)
(* null is the string "null".  Display-only data (effect names, icons,     *)
(* log lines) is not part of the records.                                  *)
(***************************************************************************)
EXTENDS Integers, Sequences, FiniteSets, TLC

VARIABLES
  applyEffects,   \* the 'applyEffects' world setting
  useActorLevelSetting, \* the 'useActorLevel' world setting
  fixedTierSetting,     \* the 'fixedTier' world setting, a string '1'..'4'
  tables,         \* game.tables: the names of the world's roll tables
  moduleSettings, \* the world settings enabled, enableCrits, enableFumbles and
                  \* showChatMessages
  statuses,       \* actor -> set of active status ids (Actor.statuses)
  combat,         \* game.combat: a record round/turn, or NoCombat
  pc,             \* "idle" between handler invocations, "done" after one
  op,             \* the inputs of the handler invocation being observed
  calls,          \* the host calls that invocation issued, in order
  world,          \* the module's version (game.modules) and its RollTable folder
                  \* (game.folders) with the tables filed in it
  hooks           \* MidiQolHooks.hookId and the attack-roll-complete handlers
                  \* the host holds (Hooks)

vars ==
  <<applyEffects, useActorLevelSetting, fixedTierSetting, tables, moduleSettings,
    statuses, combat, pc, op, calls, world, hooks>>

\* what only the table importer and the hook registration change
hostVars == <<world, hooks>>

\* what the table-selection operations read
selectVars == <<useActorLevelSetting, fixedTierSetting, tables>>

----------------------------------------------------------------------------
(* Bounds of the model *)

MaxTargets == 2      \* longest target-token list of a fumble
MaxDuration == 2     \* largest configured duration

----------------------------------------------------------------------------
(* JavaScript helpers *)

Null == "null"

Has(r, f) == f \in DOMAIN r

\* a string field f is truthy: present and not ''
Truthy(r, f) == Has(r, f) /\ r[f] # ""

Range(s) == {s[i] : i \in 1..Len(s)}

StartsWith(s, p) == Len(s) >= Len(p) /\ SubSeq(s, 1, Len(p)) = p

\* S extended by the records of S that also carry field f with a value of V
WithOpt(S, f, V) == S \cup {r @@ (f :> v) : r \in S, v \in V}

----------------------------------------------------------------------------
(* Host fixtures: tokens and their actors (foundry.d.ts Token, Actor) *)

Tokens == {"tF", "t1", "t2", "tX"}

\* token.actor; token tX has actor null
TokenActor == [tF |-> "aF", t1 |-> "a1", t2 |-> "a2"]

HasActor(t) == t \in DOMAIN TokenActor

Actors == {"aF", "a1", "a2"}

NoCombat == [none |-> TRUE]

ActiveCombat == [round |-> 3, turn |-> 1]

\* game.combat?.round ?? 0 and game.combat?.turn ?? 0
CombatRound(c) == IF Has(c, "round") THEN c.round ELSE 0

CombatTurn(c) == IF Has(c, "turn") THEN c.turn ELSE 0

----------------------------------------------------------------------------
(* constants: EFFECT_TYPES *)

EFFECT_NONE == "none"
EFFECT_CONDITION == "condition"
EFFECT_DAMAGE == "damage"
EFFECT_SAVE == "save"
EFFECT_DISARM == "disarm"
EFFECT_PENALTY == "penalty"
EFFECT_ADVANTAGE == "advantage"
EFFECT_DISADVANTAGE == "disadvantage"

----------------------------------------------------------------------------
(* The thread of one handler invocation: the calls issued so far, the      *)
(* actors' statuses, and whether the last host call rejected.              *)

Thread(st) == [calls |-> <<>>, statuses |-> st, rejected |-> FALSE]

Issue(th, call, fails) ==
  [th EXCEPT !.calls = Append(@, call), !.rejected = fails]

\* catch (error) { console.error(...) }: the rejection is swallowed
Caught(th) == [th EXCEPT !.rejected = FALSE]

\* Actor.toggleStatusEffect(statusId, {active: true}): forces the status on
HostToggleStatusEffect(th, actor, statusId, fault) ==
  LET call == [fn |-> "toggleStatusEffect", actor |-> actor,
               statusId |-> statusId, active |-> TRUE]
  IN IF fault = "toggle"
       THEN Issue(th, call, TRUE)
       ELSE [Issue(th, call, FALSE) EXCEPT !.statuses[actor] = @ \cup {statusId}]

\* Actor.createEmbeddedDocuments('ActiveEffect', docs)
HostCreateEmbeddedDocuments(th, actor, docs, fault) ==
  Issue(th, [fn |-> "createEmbeddedDocuments", actor |-> actor,
             type |-> "ActiveEffect", docs |-> docs], fault = "create")

----------------------------------------------------------------------------
(* EffectsManager: conditions *)

\* String.prototype.toLowerCase on the condition names of the model
ToLowerCase(s) ==
  CASE s = "Prone" -> "prone"
    [] s = "RESTRAINED" -> "restrained"
    [] s = "Bleeding" -> "bleeding"
    [] OTHER -> s

standardConditions ==
  {"blinded", "charmed", "deafened", "frightened", "grappled", "incapacitated",
   "invisible", "paralyzed", "petrified", "poisoned", "prone", "restrained",
   "stunned", "unconscious", "exhaustion"}

\* mutant: the lookup is case-sensitive
isStandardCondition_CaseSensitive(condition) == condition \in standardConditions

isStandardCondition(condition) == ToLowerCase(condition) \in standardConditions

\* mutant: duration 0 falls into the rounds branch
ConditionDurationData_NoTurnCase(duration, c) ==
  IF duration = -1
    THEN [seconds |-> Null, rounds |-> Null]
    ELSE [rounds |-> duration, startRound |-> CombatRound(c),
          startTurn |-> CombatTurn(c)]

\* the duration block of applyCondition
ConditionDurationData(duration, c) ==
  IF duration = -1
    THEN [seconds |-> Null, rounds |-> Null]
    ELSE IF duration = 0
      THEN [turns |-> 1, startTurn |-> CombatTurn(c), startRound |-> CombatRound(c)]
      ELSE [rounds |-> duration, startRound |-> CombatRound(c),
            startTurn |-> CombatTurn(c)]

\* mutant: the status is toggled without looking at the actor's statuses
applyStandardCondition_NoCheck(th, token, conditionName, duration, env) ==
  Caught(HostToggleStatusEffect(th, TokenActor[token], ToLowerCase(conditionName),
                                env.fault))

applyStandardCondition(th, token, conditionName, duration, env) ==
  LET statusId == ToLowerCase(conditionName)
      hasCondition == statusId \in th.statuses[TokenActor[token]]
  IN IF ~hasCondition
       THEN Caught(HostToggleStatusEffect(th, TokenActor[token], statusId, env.fault))
       ELSE th

applyCondition(th, token, config, env) ==
  IF ~Truthy(config, "effectCondition") \/ ~HasActor(token)
    THEN th
    ELSE
      LET conditionName == config.effectCondition
          duration == IF Has(config, "duration") THEN config.duration ELSE 1
          effectData ==
            [kind |-> "condition",
             origin |-> TokenActor[token],
             duration |-> ConditionDurationData(duration, env.combat),
             flags |-> [source |-> "crit-fumble-result", condition |-> conditionName]]
      IN IF isStandardCondition(conditionName)
           THEN applyStandardCondition(th, token, conditionName, duration, env)
           ELSE Caught(HostCreateEmbeddedDocuments(th, TokenActor[token],
                                                   <<effectData>>, env.fault))

----------------------------------------------------------------------------
(* EffectsManager: advantage / disadvantage *)

\* CONST.ACTIVE_EFFECT_MODES
MODE_CUSTOM == 0
MODE_ADD == 2
MODE_OVERRIDE == 5

\* mutant: the scope itself is the suffix of the key
scopeToMidiFlags_ScopeAsSuffix(scope, type, target) ==
  <<(IF target = "grants" THEN "flags.midi-qol.grants." \o type
                          ELSE "flags.midi-qol." \o type) \o "." \o scope>>

scopeToMidiFlags(scope, type, target) ==
  LET prefix == IF target = "grants"
                  THEN "flags.midi-qol.grants." \o type
                  ELSE "flags.midi-qol." \o type
  IN CASE scope = "all" -> <<prefix \o ".all">>
       [] scope = "attack.all" -> <<prefix \o ".attack.all">>
       [] scope = "attack.mwak" -> <<prefix \o ".attack.mwak">>
       [] scope = "attack.rwak" -> <<prefix \o ".attack.rwak">>
       [] scope = "attack.msak" -> <<prefix \o ".attack.msak">>
       [] scope = "attack.rsak" -> <<prefix \o ".attack.rsak">>
       [] scope = "ability.all" -> <<prefix \o ".ability.check.all">>
       [] scope = "ability.str" -> <<prefix \o ".ability.check.str">>
       [] scope = "ability.dex" -> <<prefix \o ".ability.check.dex">>
       [] scope = "ability.con" -> <<prefix \o ".ability.check.con">>
       [] scope = "ability.int" -> <<prefix \o ".ability.check.int">>
       [] scope = "ability.wis" -> <<prefix \o ".ability.check.wis">>
       [] scope = "ability.cha" -> <<prefix \o ".ability.check.cha">>
       [] scope = "save.all" -> <<prefix \o ".ability.save.all">>
       [] scope = "save.str" -> <<prefix \o ".ability.save.str">>
       [] scope = "save.dex" -> <<prefix \o ".ability.save.dex">>
       [] scope = "save.con" -> <<prefix \o ".ability.save.con">>
       [] scope = "save.int" -> <<prefix \o ".ability.save.int">>
       [] scope = "save.wis" -> <<prefix \o ".ability.save.wis">>
       [] scope = "save.cha" -> <<prefix \o ".ability.save.cha">>
       [] scope = "concentration" -> <<prefix \o ".concentration">>
       [] OTHER -> <<>>

\* mutant: the flag changes are additive
KeysToChanges_Additive(keys) ==
  [i \in 1..Len(keys) |-> [key |-> keys[i], mode |-> MODE_ADD, value |-> "1"]]

RECURSIVE KeysToChanges(_)
KeysToChanges(keys) ==
  IF keys = <<>>
    THEN <<>>
    ELSE <<[key |-> Head(keys), mode |-> MODE_CUSTOM, value |-> "1"]>>
           \o KeysToChanges(Tail(keys))

RECURSIVE buildAdvantageChanges(_, _, _)
buildAdvantageChanges(scopes, type, target) ==
  IF scopes = <<>>
    THEN <<>>
    ELSE KeysToChanges(scopeToMidiFlags(Head(scopes), type, target))
           \o buildAdvantageChanges(Tail(scopes), type, target)

\* the duration block of applyAdvantageDisadvantage
AdvantageDurationData(duration, c) ==
  IF duration = -1
    THEN [seconds |-> Null, rounds |-> Null]
    ELSE IF duration = 0
      THEN [turns |-> 1, startTurn |-> CombatTurn(c), startRound |-> CombatRound(c)]
      ELSE [rounds |-> duration, startRound |-> CombatRound(c),
            startTurn |-> CombatTurn(c)]

\* config.advantageScope is [single |-> scope] or [list |-> <<scope, ...>>]
applyAdvantageDisadvantage(th, token, config, type, env) ==
  IF ~HasActor(token) \/ ~Has(config, "advantageScope")
    THEN th
    ELSE
      LET scopes == IF Has(config.advantageScope, "list")
                      THEN config.advantageScope.list
                      ELSE <<config.advantageScope.single>>
          target == IF Has(config, "advantageTarget")
                      THEN config.advantageTarget ELSE "self"
          changes == buildAdvantageChanges(scopes, type, target)
          duration == IF Has(config, "duration") THEN config.duration ELSE 1
          effectData ==
            [kind |-> type,
             origin |-> TokenActor[token],
             changes |-> changes,
             duration |-> AdvantageDurationData(duration, env.combat),
             flags |-> [source |-> "crit-fumble-result", effectType |-> type,
                        advantageScope |-> scopes, advantageTarget |-> target]]
      IN IF Len(changes) = 0
           THEN th
           ELSE Caught(HostCreateEmbeddedDocuments(th, TokenActor[token],
                                                   <<effectData>>, env.fault))

----------------------------------------------------------------------------
(* EffectsManager: damage *)

Digits == {"0", "1", "2", "3", "4", "5", "6", "7", "8", "9"}

Char(s, i) == SubSeq(s, i, i)

DigitValue(ch) ==
  CASE ch = "0" -> 0 [] ch = "1" -> 1 [] ch = "2" -> 2 [] ch = "3" -> 3
    [] ch = "4" -> 4 [] ch = "5" -> 5 [] ch = "6" -> 6 [] ch = "7" -> 7
    [] ch = "8" -> 8 [] ch = "9" -> 9

IsDigits(s) == Len(s) > 0 /\ \A i \in 1..Len(s) : Char(s, i) \in Digits

\* parseInt(s, 10) of a string of digits
RECURSIVE ParseInt(_)
ParseInt(s) ==
  IF Len(s) = 0
    THEN 0
    ELSE 10 * ParseInt(SubSeq(s, 1, Len(s) - 1)) + DigitValue(Char(s, Len(s)))

\* formula.match(/^(\d+)X$/i) for the letter X given in upper and lower case
MatchesDice(formula, upper, lower) ==
  /\ Len(formula) >= 2
  /\ Char(formula, Len(formula)) \in {upper, lower}
  /\ IsDigits(SubSeq(formula, 1, Len(formula) - 1))

\* the end of the run of digits of s that starts at position i
RECURSIVE DigitRunEnd(_, _)
DigitRunEnd(s, i) ==
  IF i < Len(s) /\ Char(s, i + 1) \in Digits THEN DigitRunEnd(s, i + 1) ELSE i

\* damageFormula.match(/d(\d+)/i): "d" and the digits of the first match, or ""
DieMatch(s) ==
  LET starts == {i \in 1..(Len(s) - 1) :
                   Char(s, i) \in {"d", "D"} /\ Char(s, i + 1) \in Digits}
  IN IF starts = {}
       THEN ""
       ELSE LET i == CHOOSE k \in starts : \A j \in starts : k <= j
            IN "d" \o SubSeq(s, i + 1, DigitRunEnd(s, i + 1))

NoItem == [none |-> TRUE]

NoActor == [none |-> TRUE]

\* item.system?.damage?.parts with at least one entry
HasParts(item) == Has(item, "parts") /\ Len(item.parts) > 0

DamageDie(item, fallback) ==
  IF ~Has(item, "id")
    THEN fallback
    ELSE IF HasParts(item) /\ item.parts[1][1] # "" /\ DieMatch(item.parts[1][1]) # ""
      THEN DieMatch(item.parts[1][1])
      ELSE fallback

\* mutant: a weapon without a readable die rolls d4
getWeaponDamageDie_D4(item) == DamageDie(item, "d4")

getWeaponDamageDie(item) == DamageDie(item, "d6")

\* mutant: spells fall back to the weapon default
getSpellDamageDie_WeaponDefault(item) == DamageDie(item, "d6")

getSpellDamageDie(item) == DamageDie(item, "d8")

resolveWeaponDiceFormula(formula, sourceItem) ==
  IF MatchesDice(formula, "W", "w")
    THEN ToString(ParseInt(SubSeq(formula, 1, Len(formula) - 1)))
           \o getWeaponDamageDie(sourceItem)
    ELSE IF MatchesDice(formula, "S", "s")
      THEN ToString(ParseInt(SubSeq(formula, 1, Len(formula) - 1)))
             \o getSpellDamageDie(sourceItem)
      ELSE formula

getWeaponDamageType(item) ==
  IF HasParts(item) /\ item.parts[1][2] # ""
    THEN item.parts[1][2]
    ELSE "bludgeoning"

ResolveDamageType(config, sourceItem) ==
  LET damageType == IF Has(config, "damageType") /\ config.damageType # ""
                      THEN config.damageType ELSE "bludgeoning"
  IN IF damageType \in {"weapon", "spell"} /\ Has(sourceItem, "id")
       THEN getWeaponDamageType(sourceItem)
       ELSE IF damageType = "weapon"
         THEN "bludgeoning"
         ELSE IF damageType = "spell" THEN "force" ELSE damageType

\* new Roll(formula).evaluate(): the dice collaborator yields env.total
HostRollEvaluate(th, formula, fault) ==
  Issue(th, [fn |-> "rollEvaluate", formula |-> formula], fault = "roll")

HostRollToMessage(th, token, damageType, fault) ==
  Issue(th, [fn |-> "rollToMessage", token |-> token, damageType |-> damageType],
        fault = "message")

HostApplyTokenDamage(th, token, total, damageType, fault) ==
  Issue(th, [fn |-> "applyTokenDamage", token |-> token, total |-> total,
             detail |-> <<[damage |-> total, type |-> damageType]>>],
        fault = "damage")

\* mutant: no try/catch around the roll, the chat message and the damage
applyDamage_NoCatch(th, token, config, sourceItem, env) ==
  IF ~Truthy(config, "damageFormula") \/ ~HasActor(token)
    THEN th
    ELSE
      LET resolvedFormula == resolveWeaponDiceFormula(config.damageFormula, sourceItem)
          damageType == ResolveDamageType(config, sourceItem)
          th1 == HostRollEvaluate(th, resolvedFormula, env.fault)
          th2 == HostRollToMessage(th1, token, damageType, env.fault)
          th3 == HostApplyTokenDamage(th2, token, env.total, damageType, env.fault)
      IN IF th1.rejected THEN th1
         ELSE IF th2.rejected THEN th2
         ELSE th3

applyDamage(th, token, config, sourceItem, env) ==
  IF ~Truthy(config, "damageFormula") \/ ~HasActor(token)
    THEN th
    ELSE
      LET resolvedFormula == resolveWeaponDiceFormula(config.damageFormula, sourceItem)
          damageType == ResolveDamageType(config, sourceItem)
          th1 == HostRollEvaluate(th, resolvedFormula, env.fault)
          th2 == HostRollToMessage(th1, token, damageType, env.fault)
          th3 == HostApplyTokenDamage(th2, token, env.total, damageType, env.fault)
      IN IF th1.rejected THEN Caught(th1)
         ELSE IF th2.rejected THEN Caught(th2)
         ELSE Caught(th3)

----------------------------------------------------------------------------
(* EffectsManager: save, disarm, penalty *)

\* mutant: the nested damage is applied before the nested condition
handleSaveEffect_DamageFirst(th, token, config, env) ==
  IF ~(Has(config, "saveDC") /\ config.saveDC # 0)
       \/ ~Truthy(config, "saveAbility") \/ ~HasActor(token)
    THEN th
    ELSE
      LET th1 == IF Truthy(config, "damageFormula")
                   THEN applyDamage(th, token, config, NoItem, env) ELSE th
      IN IF Truthy(config, "effectCondition")
           THEN applyCondition(th1, token, config, env)
           ELSE th1

handleSaveEffect(th, token, config, env) ==
  IF ~(Has(config, "saveDC") /\ config.saveDC # 0)
       \/ ~Truthy(config, "saveAbility") \/ ~HasActor(token)
    THEN th
    ELSE
      LET th1 == IF Truthy(config, "effectCondition")
                   THEN applyCondition(th, token, config, env) ELSE th
      IN IF Truthy(config, "damageFormula")
           THEN applyDamage(th1, token, config, NoItem, env)
           ELSE th1

\* actor.items: the item documents each actor owns, by id
ActorItems ==
  [aF |-> [sword |-> "weapon", bolt |-> "spell"],
   a1 |-> [club |-> "weapon"],
   a2 |-> [potion |-> "consumable"]]

HostItemUpdate(th, actor, itemId, fault) ==
  Issue(th, [fn |-> "itemUpdate", actor |-> actor, item |-> itemId,
             equipped |-> FALSE], fault = "update")

\* mutant: the item is unequipped whatever its type
applyDisarm_AnyItemType(th, sourceActor, sourceItem, env) ==
  IF ~Has(sourceActor, "id") \/ ~Has(sourceItem, "id")
    THEN th
    ELSE IF ~Has(ActorItems[sourceActor.id], sourceItem.id)
      THEN th
      ELSE Caught(HostItemUpdate(th, sourceActor.id, sourceItem.id, env.fault))

applyDisarm(th, sourceActor, sourceItem, env) ==
  IF ~Has(sourceActor, "id") \/ ~Has(sourceItem, "id")
    THEN th
    ELSE
      LET items == ActorItems[sourceActor.id]
      IN IF ~Has(items, sourceItem.id)
           THEN th
           ELSE IF items[sourceItem.id] = "weapon"
             THEN Caught(HostItemUpdate(th, sourceActor.id, sourceItem.id, env.fault))
             ELSE th

\* the duration block of applyPenalty
PenaltyDurationData(duration, c) ==
  IF duration = -1
    THEN [seconds |-> Null, rounds |-> Null]
    ELSE [rounds |-> duration, startRound |-> CombatRound(c),
          startTurn |-> CombatTurn(c)]

\* mutant: an actor that already received an effect document gets no second one
applyPenalty_Tracked(th, token, config, env) ==
  IF ~HasActor(token) \/ ~Truthy(config, "penaltyType") \/ ~Has(config, "penaltyValue")
    THEN th
    ELSE IF \E i \in 1..Len(th.calls) :
              /\ th.calls[i].fn = "createEmbeddedDocuments"
              /\ th.calls[i].actor = TokenActor[token]
      THEN th
      ELSE
        LET changeKey == IF config.penaltyType = "ac"
                           THEN "system.attributes.ac.bonus"
                           ELSE "system.bonuses.All.attack"
            duration == IF Has(config, "duration") THEN config.duration ELSE -1
            effectData ==
              [kind |-> "penalty",
               origin |-> TokenActor[token],
               changes |-> <<[key |-> changeKey, mode |-> MODE_ADD,
                              value |-> ToString(config.penaltyValue)]>>,
               duration |-> PenaltyDurationData(duration, env.combat),
               flags |-> [source |-> "crit-fumble-result",
                          penaltyType |-> config.penaltyType,
                          penaltyValue |-> config.penaltyValue]]
        IN Caught(HostCreateEmbeddedDocuments(th, TokenActor[token],
                                              <<effectData>>, env.fault))

applyPenalty(th, token, config, env) ==
  IF ~HasActor(token) \/ ~Truthy(config, "penaltyType") \/ ~Has(config, "penaltyValue")
    THEN th
    ELSE
      LET changeKey == IF config.penaltyType = "ac"
                         THEN "system.attributes.ac.bonus"
                         ELSE "system.bonuses.All.attack"
          duration == IF Has(config, "duration") THEN config.duration ELSE -1
          effectData ==
            [kind |-> "penalty",
             origin |-> TokenActor[token],
             changes |-> <<[key |-> changeKey, mode |-> MODE_ADD,
                            value |-> ToString(config.penaltyValue)]>>,
             duration |-> PenaltyDurationData(duration, env.combat),
             flags |-> [source |-> "crit-fumble-result",
                        penaltyType |-> config.penaltyType,
                        penaltyValue |-> config.penaltyValue]]
      IN Caught(HostCreateEmbeddedDocuments(th, TokenActor[token],
                                            <<effectData>>, env.fault))

----------------------------------------------------------------------------
(* EffectsManager: applyResult and the fumble routing rule *)

\* a rolled result: [config |-> effect configuration], or one without flags
NoFlags == [noflags |-> TRUE]

\* mutant: the setting is ignored
shouldApplyEffects_Always(env) == TRUE

\* settings: getSetting(SETTINGS.APPLY_EFFECTS), read when the handler starts
shouldApplyEffects(env) == env.applyEffects

applyResult(th, result, targetToken, sourceActor, sourceItem, env) ==
  IF ~shouldApplyEffects(env)
    THEN th
    ELSE IF ~Has(result, "config") \/ result.config.effectType = EFFECT_NONE
      THEN th
      ELSE
        LET effectConfig == result.config
            effectType == effectConfig.effectType
        IN CASE effectType = EFFECT_CONDITION ->
                  applyCondition(th, targetToken, effectConfig, env)
             [] effectType = EFFECT_DAMAGE ->
                  applyDamage(th, targetToken, effectConfig, sourceItem, env)
             [] effectType = EFFECT_SAVE ->
                  handleSaveEffect(th, targetToken, effectConfig, env)
             [] effectType = EFFECT_DISARM ->
                  applyDisarm(th, sourceActor, sourceItem, env)
             [] effectType = EFFECT_PENALTY ->
                  applyPenalty(th, targetToken, effectConfig, env)
             [] effectType = EFFECT_ADVANTAGE ->
                  applyAdvantageDisadvantage(th, targetToken, effectConfig,
                                             "advantage", env)
             [] effectType = EFFECT_DISADVANTAGE ->
                  applyAdvantageDisadvantage(th, targetToken, effectConfig,
                                             "disadvantage", env)
             [] OTHER -> th

\* mutant: the spread keeps advantageTarget
Without_KeepsField(r, f) == r

\* { ...effectConfig, advantageTarget: undefined }
Without(r, f) == [k \in DOMAIN r \ {f} |-> r[k]]

\* for (const target of targetTokens) await applyAdvantageDisadvantage(...)
RECURSIVE ApplyToTargets(_, _, _, _, _)
ApplyToTargets(th, targetTokens, targetConfig, mode, env) ==
  IF targetTokens = <<>>
    THEN th
    ELSE ApplyToTargets(
           applyAdvantageDisadvantage(th, Head(targetTokens), targetConfig, mode, env),
           Tail(targetTokens), targetConfig, mode, env)

\* mutant: the branch forgets the 'grants' test
RoutesToTargets_AnyTarget(effectConfig, targetTokens) ==
  /\ effectConfig.effectType \in {EFFECT_ADVANTAGE, EFFECT_DISADVANTAGE}
  /\ Len(targetTokens) > 0

\* the condition of the re-targeting branch of applyFumbleResult
RoutesToTargets(effectConfig, targetTokens) ==
  /\ effectConfig.effectType \in {EFFECT_ADVANTAGE, EFFECT_DISADVANTAGE}
  /\ Has(effectConfig, "advantageTarget")
  /\ effectConfig.advantageTarget = "grants"
  /\ Len(targetTokens) > 0

applyFumbleResult(th, result, fumblerToken, targetTokens, sourceActor, sourceItem, env) ==
  IF ~shouldApplyEffects(env)
    THEN th
    ELSE IF ~Has(result, "config") \/ result.config.effectType = EFFECT_NONE
      THEN th
      ELSE
        LET effectConfig == result.config
        IN IF RoutesToTargets(effectConfig, targetTokens)
             THEN
               LET targetConfig == Without(effectConfig, "advantageTarget")
                   mode == IF effectConfig.effectType = EFFECT_ADVANTAGE
                             THEN "advantage" ELSE "disadvantage"
               IN ApplyToTargets(th, targetTokens, targetConfig, mode, env)
             ELSE applyResult(th, result, fumblerToken, sourceActor, sourceItem, env)

----------------------------------------------------------------------------
(* Inputs *)

\* the sequences of at most n distinct elements of S
DistinctSeqs(S, n) ==
  {q \in UNION {[1..k -> S] : k \in 0..n} :
     \A i, j \in 1..Len(q) : i # j => q[i] # q[j]}

TargetLists == DistinctSeqs(Tokens, MaxTargets)

Sword == [id |-> "sword", type |-> "weapon", parts |-> <<<<"1d8+3", "slashing">>>>]

Bolt == [id |-> "bolt", type |-> "spell", parts |-> <<<<"1d10", "fire">>>>]

\* (sourceActor, sourceItem) as the attack-event adapter passes them, or absent
Sources == {<<NoActor, NoItem>>, <<[id |-> "aF"], Sword>>}

ScopeInputs ==
  {[single |-> "attack.all"], [single |-> "bogus"],
   [list |-> <<"attack.mwak", "save.dex">>]}

AdvantageConfigs ==
  WithOpt(WithOpt([effectType : {EFFECT_ADVANTAGE, EFFECT_DISADVANTAGE}],
                  "advantageScope", ScopeInputs),
          "advantageTarget", {"self", "grants"})

OtherConfigs ==
  {[effectType |-> EFFECT_NONE],
   [effectType |-> "stagger"],
   [effectType |-> EFFECT_CONDITION],
   [effectType |-> EFFECT_CONDITION, effectCondition |-> "prone"],
   [effectType |-> EFFECT_CONDITION, effectCondition |-> "prone",
    advantageTarget |-> "grants"],
   [effectType |-> EFFECT_CONDITION, effectCondition |-> "spell_locked"],
   [effectType |-> EFFECT_DAMAGE, damageFormula |-> "2W", damageType |-> "weapon"],
   [effectType |-> EFFECT_SAVE, saveDC |-> 15, saveAbility |-> "dex",
    effectCondition |-> "prone", damageFormula |-> "1d6"],
   [effectType |-> EFFECT_DISARM],
   [effectType |-> EFFECT_PENALTY, penaltyType |-> "ac", penaltyValue |-> -2]}

Results == {NoFlags} \cup {[config |-> c] : c \in AdvantageConfigs \cup OtherConfigs}

\* which host primitive rejects during the invocation
Faults == {"none", "create"}

Env(fault) ==
  [fault |-> fault, combat |-> combat, applyEffects |-> applyEffects, total |-> 7]

NoOp == [fn |-> "none"]

\* private static hookId: number | null = null
NoHook == [null |-> TRUE]

----------------------------------------------------------------------------
(* Actions *)

Observe(th, record) ==
  /\ calls' = th.calls
  /\ statuses' = th.statuses
  /\ op' = record @@ [before |-> statuses, applyEffects |-> applyEffects,
                      combat |-> combat, rejected |-> th.rejected]
  /\ pc' = "done"
  /\ UNCHANGED <<hostVars, applyEffects, combat, selectVars, moduleSettings>>

ApplyResult(result, token, source, fault) ==
  /\ pc = "idle"
  /\ Observe(applyResult(Thread(statuses), result, token, source[1], source[2],
                         Env(fault)),
             [fn |-> "applyResult", result |-> result, token |-> token,
              source |-> source, fault |-> fault])

ApplyFumbleResult(result, fumblerToken, targetTokens, source, fault) ==
  /\ pc = "idle"
  /\ Observe(applyFumbleResult(Thread(statuses), result, fumblerToken, targetTokens,
                               source[1], source[2], Env(fault)),
             [fn |-> "applyFumbleResult", result |-> result, token |-> fumblerToken,
              targets |-> targetTokens, source |-> source, fault |-> fault])

\* game.settings.set(MODULE_ID, 'applyEffects', b)
SetApplyEffects(b) ==
  /\ pc = "idle"
  /\ applyEffects # b
  /\ applyEffects' = b
  /\ UNCHANGED <<hostVars, statuses, combat, pc, op, calls, selectVars, moduleSettings>>

\* the invocation has returned; the next one is observed afresh
Return ==
  /\ pc = "done"
  /\ pc' = "idle"
  /\ op' = NoOp
  /\ calls' = <<>>
  /\ UNCHANGED <<hostVars, applyEffects, statuses, combat, selectVars, moduleSettings>>

Init ==
  /\ applyEffects = TRUE
  /\ useActorLevelSetting = TRUE
  /\ fixedTierSetting = "1"
  /\ tables = {}
  /\ moduleSettings = [enabled |-> TRUE, enableCrits |-> TRUE, enableFumbles |-> TRUE,
                       showChatMessages |-> TRUE, tablesImported |-> FALSE,
                       tablesVersion |-> ""]
  /\ statuses = [a \in Actors |-> {}]
  /\ combat = NoCombat
  /\ pc = "idle"
  /\ op = NoOp
  /\ calls = <<>>
  /\ world = [moduleVersion |-> "1.2.0", folder |-> FALSE, inFolder |-> {}]
  /\ hooks = [hookId |-> NoHook, handlers |-> {}, nextId |-> 1]

Idle == pc = "idle"

Next ==
  \/ Idle /\ \E result \in Results, token \in Tokens, source \in Sources,
                fault \in Faults :
               ApplyResult(result, token, source, fault)
  \/ Idle /\ \E result \in Results, targetTokens \in TargetLists, source \in Sources,
                fault \in Faults :
               ApplyFumbleResult(result, "tF", targetTokens, source, fault)
  \/ \E b \in BOOLEAN : SetApplyEffects(b)
  \/ Return

Spec == Init /\ [][Next]_vars

----------------------------------------------------------------------------
(* Observations on the host calls of the invocation just completed *)

Done(fn) == pc = "done" /\ op.fn = fn

\* the actor or token a host call acts on (a dice roll acts on none)
CallSubjects(c) ==
  IF Has(c, "actor") THEN {c.actor} ELSE IF Has(c, "token") THEN {c.token} ELSE {}

IsCreate(c) == c.fn = "createEmbeddedDocuments"

IsToggle(c) == c.fn = "toggleStatusEffect"

\* the actors effect creation was invoked on, in call order
CreatedOn == LET cs == SelectSeq(calls, IsCreate) IN [i \in 1..Len(cs) |-> cs[i].actor]

\* the change keys of every document handed to effect creation
CreatedKeys ==
  UNION {UNION {{ch.key : ch \in Range(doc.changes)} : doc \in Range(c.docs)} :
           c \in {x \in Range(calls) : IsCreate(x)}}

\* the 21 scope tokens of the AdvantageScope type
DeclaredScopes ==
  {"all", "attack.all", "attack.mwak", "attack.rwak", "attack.msak", "attack.rsak",
   "ability.all", "ability.str", "ability.dex", "ability.con", "ability.int",
   "ability.wis", "ability.cha", "save.all", "save.str", "save.dex", "save.con",
   "save.int", "save.wis", "save.cha", "concentration"}

ConfigScopes(config) ==
  IF ~Has(config, "advantageScope")
    THEN {}
    ELSE IF Has(config.advantageScope, "list")
      THEN Range(config.advantageScope.list)
      ELSE {config.advantageScope.single}

HasDeclaredScope(config) == ConfigScopes(config) \cap DeclaredScopes # {}

IsGrants(result) ==
  /\ Has(result, "config")
  /\ result.config.effectType \in {EFFECT_ADVANTAGE, EFFECT_DISADVANTAGE}
  /\ Has(result.config, "advantageTarget")
  /\ result.config.advantageTarget = "grants"

\* the actors of the tokens of a list that have one, in list order
RECURSIVE ActorsOfTokens(_)
ActorsOfTokens(tokens) ==
  IF tokens = <<>>
    THEN <<>>
    ELSE (IF HasActor(Head(tokens)) THEN <<TokenActor[Head(tokens)]>> ELSE <<>>)
           \o ActorsOfTokens(Tail(tokens))

FumblerOnly == \A i \in 1..Len(calls) : CallSubjects(calls[i]) \subseteq {"tF", "aF"}

----------------------------------------------------------------------------
(* C1: fumble routing *)

\* C1 (as stated): with apply-effects on, applyFumbleResult for an
\* advantage/disadvantage result whose advantageTarget is 'grants' invokes effect
\* creation exactly once on each target token's actor, in list order, and never on
\* the fumbler's actor; with no targets exactly once on the fumbler's actor; every
\* other effect kind is applied to the fumbler only.
C1_AsStated ==
  (Done("applyFumbleResult") /\ op.applyEffects) =>
    IF IsGrants(op.result)
      THEN IF op.targets # <<>>
             THEN /\ Len(CreatedOn) = Len(op.targets)
                  /\ \A i \in 1..Len(op.targets) :
                       /\ HasActor(op.targets[i])
                       /\ i <= Len(CreatedOn)
                       /\ CreatedOn[i] = TokenActor[op.targets[i]]
                  /\ "aF" \notin Range(CreatedOn)
             ELSE CreatedOn = <<"aF">>
      ELSE FumblerOnly

\* C1 (amended): the same, where the result declares at least one recognised scope:
\* effect creation is invoked once per target token that has an actor, in list
\* order, on that token's actor and on no other (the fumbler's actor only when the
\* fumbler's own token is a target); with no targets exactly once on the fumbler's
\* actor.  A 'grants' result without a recognised scope creates nothing.  Every
\* other result (other kind, or target not 'grants') is applied to the fumbler only.
C1_FumbleRouting ==
  (Done("applyFumbleResult") /\ op.applyEffects) =>
    IF IsGrants(op.result)
      THEN /\ \A i \in 1..Len(calls) : IsCreate(calls[i])
           /\ CreatedOn =
                IF ~HasDeclaredScope(op.result.config)
                  THEN <<>>
                  ELSE IF op.targets # <<>>
                    THEN ActorsOfTokens(op.targets)
                    ELSE <<"aF">>
      ELSE FumblerOnly

\* two targets with actors, each given the effect, in list order
C1_Witness ==
  /\ Done("applyFumbleResult")
  /\ op.applyEffects
  /\ IsGrants(op.result)
  /\ op.targets = <<"t2", "t1">>
  /\ CreatedOn = <<"a2", "a1">>

----------------------------------------------------------------------------
(* C2: the 'grants' marker of the change keys *)

\* C2: re-targeted onto the original targets, every change key of a created
\* document is flags.midi-qol.<type>.<...> without the 'grants.' segment; applied to
\* the fumbler for want of targets, every key keeps flags.midi-qol.grants.<type>.
C2_GrantsMarker ==
  (Done("applyFumbleResult") /\ op.applyEffects /\ IsGrants(op.result)) =>
    LET type == op.result.config.effectType
    IN \A key \in CreatedKeys :
         IF op.targets # <<>>
           THEN /\ StartsWith(key, "flags.midi-qol." \o type \o ".")
                /\ ~StartsWith(key, "flags.midi-qol.grants.")
           ELSE StartsWith(key, "flags.midi-qol.grants." \o type \o ".")

\* a re-targeted 'grants' disadvantage whose document carries two keys
C2_Witness ==
  /\ Done("applyFumbleResult")
  /\ op.applyEffects
  /\ IsGrants(op.result)
  /\ op.result.config.effectType = EFFECT_DISADVANTAGE
  /\ op.targets = <<"t1">>
  /\ CreatedKeys = {"flags.midi-qol.disadvantage.attack.mwak",
                    "flags.midi-qol.disadvantage.ability.save.dex"}

----------------------------------------------------------------------------
(* C3: the gates of applyResult and applyFumbleResult *)

RecognisedTypes ==
  {EFFECT_CONDITION, EFFECT_DAMAGE, EFFECT_SAVE, EFFECT_DISARM, EFFECT_PENALTY,
   EFFECT_ADVANTAGE, EFFECT_DISADVANTAGE}

Gated ==
  \/ ~op.applyEffects
  \/ ~Has(op.result, "config")
  \/ op.result.config.effectType \notin RecognisedTypes

\* C3: with the apply-effects setting off, without an effect configuration, or
\* with effectType 'none' or an unrecognised tag, applyResult and applyFumbleResult
\* issue no host call at all and leave every actor's statuses as they were.
C3_GatedNoOp ==
  ((Done("applyResult") \/ Done("applyFumbleResult")) /\ Gated) =>
    /\ calls = <<>>
    /\ statuses = op.before

\* a condition result that would toggle 'prone', applied with the setting off
C3_Witness ==
  /\ Done("applyResult")
  /\ ~op.applyEffects
  /\ op.result = [config |-> [effectType |-> EFFECT_CONDITION,
                              effectCondition |-> "prone"]]
  /\ op.token = "t1"
  /\ "prone" \notin statuses["a1"]
  /\ calls = <<>>

----------------------------------------------------------------------------
(* The condition and advantage handlers called on their own, with the      *)
(* combat clock running or not                                             *)

ConditionNames == {"prone", "Prone", "RESTRAINED", "spell_locked", "Bleeding"}

Durations == -2..MaxDuration

ConditionConfigs ==
  WithOpt(WithOpt({[effectType |-> EFFECT_CONDITION]}, "effectCondition",
                  ConditionNames),
          "duration", Durations)

TimedAdvantageConfigs ==
  WithOpt(WithOpt([effectType : {EFFECT_ADVANTAGE, EFFECT_DISADVANTAGE},
                   advantageScope : {[single |-> "attack.all"]}],
                  "advantageTarget", {"grants"}),
          "duration", Durations)

CondTokens == {"t1", "t2", "tX"}

CondFaults == {"none", "toggle", "create"}

ApplyCondition(token, config, fault) ==
  /\ pc = "idle"
  /\ Observe(applyCondition(Thread(statuses), token, config, Env(fault)),
             [fn |-> "applyCondition", token |-> token, config |-> config,
              fault |-> fault])

ApplyAdvantageDisadvantage(token, config, fault) ==
  /\ pc = "idle"
  /\ Observe(applyAdvantageDisadvantage(Thread(statuses), token, config,
                                        config.effectType, Env(fault)),
             [fn |-> "applyAdvantageDisadvantage", token |-> token,
              config |-> config, fault |-> fault])

\* the host starts or ends combat
HostCombat ==
  /\ pc = "idle"
  /\ combat' = IF combat = NoCombat THEN ActiveCombat ELSE NoCombat
  /\ UNCHANGED <<hostVars, applyEffects, statuses, pc, op, calls, selectVars, moduleSettings>>

NextCond ==
  \/ Idle /\ \E token \in CondTokens, config \in ConditionConfigs,
                fault \in CondFaults :
               ApplyCondition(token, config, fault)
  \/ Idle /\ \E token \in CondTokens, config \in TimedAdvantageConfigs,
                fault \in CondFaults :
               ApplyAdvantageDisadvantage(token, config, fault)
  \/ HostCombat
  \/ Return

SpecCond == Init /\ [][NextCond]_vars

----------------------------------------------------------------------------
(* C4: standard conditions toggle, custom conditions create *)

NamedCondition ==
  /\ Done("applyCondition")
  /\ HasActor(op.token)
  /\ Has(op.config, "effectCondition")

----------------------------------------------------------------------------
(* C5: applying a standard condition is idempotent *)

StandardCondition ==
  /\ NamedCondition
  /\ ToLowerCase(op.config.effectCondition) \in standardConditions

\* C5: a standard condition is toggled only when its lower-cased id is not among
\* the actor's active statuses, and then with active: true on that actor; a status
\* that was active before the application is active after it and no status of any
\* actor is ever removed.
C5_IdempotentToggle ==
  StandardCondition =>
    LET actor == TokenActor[op.token]
        statusId == ToLowerCase(op.config.effectCondition)
    IN /\ IF statusId \in op.before[actor]
            THEN calls = <<>>
            ELSE calls = <<[fn |-> "toggleStatusEffect", actor |-> actor,
                            statusId |-> statusId, active |-> TRUE]>>
       /\ \A a \in Actors : op.before[a] \subseteq statuses[a]
       /\ (op.fault # "toggle") => statusId \in statuses[actor]

\* 'Prone' applied to an actor that is already prone: no toggle, still prone
C5_Witness ==
  /\ StandardCondition
  /\ op.config.effectCondition = "Prone"
  /\ op.token = "t1"
  /\ "prone" \in op.before["a1"]
  /\ calls = <<>>
  /\ "prone" \in statuses["a1"]

----------------------------------------------------------------------------
(* C6: the duration block of created effect documents *)

\* the documents of kind condition or advantage/disadvantage just created
TimedDocs ==
  UNION {Range(c.docs) : c \in {x \in Range(calls) : IsCreate(x)}}

ConfiguredDuration(config) == IF Has(config, "duration") THEN config.duration ELSE 1

\* C6: a document created for a custom condition or an advantage/disadvantage
\* effect has, for configured duration d (1 when absent): d = -1: seconds = null
\* and rounds = null; d = 0: turns = 1 with startTurn/startRound the current combat
\* turn and round; d > 0: rounds = d with startRound/startTurn the current ones.
C6_DurationBlock ==
  (Done("applyCondition") \/ Done("applyAdvantageDisadvantage")) =>
    \A doc \in TimedDocs :
      LET d == ConfiguredDuration(op.config)
          block == doc.duration
      IN /\ (d = -1) => block = [seconds |-> Null, rounds |-> Null]
         /\ (d = 0) => /\ DOMAIN block = {"turns", "startTurn", "startRound"}
                       /\ block.turns = 1
                       /\ block.startTurn = CombatTurn(op.combat)
                       /\ block.startRound = CombatRound(op.combat)
         /\ (d > 0) => /\ DOMAIN block = {"rounds", "startRound", "startTurn"}
                       /\ block.rounds = d
                       /\ block.startRound = CombatRound(op.combat)
                       /\ block.startTurn = CombatTurn(op.combat)

\* a custom condition until end of turn, created during round 3, turn 1
C6_Witness ==
  /\ Done("applyCondition")
  /\ op.config = [effectType |-> EFFECT_CONDITION, effectCondition |-> "spell_locked",
                  duration |-> 0]
  /\ op.combat = ActiveCombat
  /\ \E doc \in TimedDocs : doc.duration = [turns |-> 1, startTurn |-> 1, startRound |-> 3]

----------------------------------------------------------------------------
(* C7: the duration of a standard condition *)

\* the round counts carried by the host calls of the invocation
CarriedRounds ==
  {c.duration.rounds : c \in {x \in Range(calls) :
                                Has(x, "duration") /\ Has(x.duration, "rounds")}}
    \cup {doc.duration.rounds : doc \in {x \in TimedDocs : Has(x.duration, "rounds")}}

\* C7 (as stated): a standard condition applied with duration N > 0 reaches the
\* host with an N-round duration, as a custom condition does.
C7_AsStated ==
  (StandardCondition /\ Has(op.config, "duration") /\ op.config.duration > 0
     /\ op.fault = "none" /\ calls # <<>>) =>
    op.config.duration \in CarriedRounds

----------------------------------------------------------------------------
(* Tiers and table names (constants) *)

MaxCR == 32

MaxLevel == 14

ATTACK_TYPES == {"melee", "ranged", "spell"}

RESULT_CRIT == "crit"

RESULT_FUMBLE == "fumble"

RESULT_TYPES == {RESULT_CRIT, RESULT_FUMBLE}

TierNumbers == 1..4

\* mutant: the suffix is the result type itself
getTableName_Singular(tier, attackType, resultType) ==
  "tier" \o ToString(tier) \o "-" \o attackType \o "-" \o resultType

getTableName(tier, attackType, resultType) ==
  LET suffix == IF resultType = RESULT_CRIT THEN "crits" ELSE "fumbles"
  IN "tier" \o ToString(tier) \o "-" \o attackType \o "-" \o suffix

getTierFromLevel(level) ==
  IF level <= 4 THEN 1
  ELSE IF level <= 8 THEN 2
  ELSE IF level <= 12 THEN 3
  ELSE 4

\* mutant: the breakpoints are exclusive
getTierFromCR_Exclusive(cr) ==
  IF cr < 4 THEN 1
  ELSE IF cr < 8 THEN 2
  ELSE IF cr < 12 THEN 3
  ELSE 4

getTierFromCR(cr) ==
  IF cr <= 4 THEN 1
  ELSE IF cr <= 8 THEN 2
  ELSE IF cr <= 12 THEN 3
  ELSE 4

----------------------------------------------------------------------------
(* Settings accessors *)

useActorLevel(env) == env.useActorLevel

getConfiguredTier(env) == ParseInt(env.fixedTier)

FixedTierChoices == {"1", "2", "3", "4"}

----------------------------------------------------------------------------
(* TableSelector *)

\* mutant: a level of 0 counts as a level
getTier_LevelZero(args, env) ==
  IF useActorLevel(env) /\ Has(args, "level") /\ args.level >= 0
    THEN getTierFromLevel(args.level)
  ELSE IF useActorLevel(env) /\ Has(args, "cr") /\ args.cr >= 0
    THEN getTierFromCR(args.cr)
  ELSE getConfiguredTier(env)

\* args.level / args.cr are absent for an undefined argument
getTier(args, env) ==
  IF useActorLevel(env) /\ Has(args, "level") /\ args.level > 0
    THEN getTierFromLevel(args.level)
  ELSE IF useActorLevel(env) /\ Has(args, "cr") /\ args.cr >= 0
    THEN getTierFromCR(args.cr)
  ELSE getConfiguredTier(env)

\* game.tables.get(tableName) || game.tables.getName(tableName): table ids are
\* host-generated and never a table name, so only the lookup by name can hit
findTable(tableName, env) ==
  [calls |-> <<[fn |-> "tables.get", name |-> tableName],
               [fn |-> "tables.getName", name |-> tableName]>>,
   found |-> tableName \in env.tables]

\* s.indexOf(sub): the 0-based position of the first occurrence, -1 if none
IndexOf(s, sub) ==
  LET hits == {i \in 1..(Len(s) - Len(sub) + 1) : SubSeq(s, i, i + Len(sub) - 1) = sub}
  IN IF hits = {} THEN -1 ELSE (CHOOSE i \in hits : \A k \in hits : i <= k) - 1

\* what table.draw() can do: reject, draw nothing, or draw an entry
DrawTexts == {"Pin Down - Target is pinned", "Stumble", " - lost", ""}

DrawOutcomes ==
  {[kind |-> "throws"], [kind |-> "empty"]}
    \cup [kind : {"entry"}, text : DrawTexts]

D100Rolls == {1, 100}

ParsedName(resultText) ==
  LET dashIndex == IndexOf(resultText, " - ")
  IN IF dashIndex > 0 THEN SubSeq(resultText, 1, dashIndex)
     ELSE IF resultText # "" THEN resultText ELSE "Unknown Result"

ParsedDescription(resultText) ==
  LET dashIndex == IndexOf(resultText, " - ")
  IN IF dashIndex > 0 THEN SubSeq(resultText, dashIndex + 4, Len(resultText)) ELSE ""

\* flags: result.flags: the module's effect configuration of the drawn entry, kept
\* as the field config when the entry has one
WithFlags(rolled, draw) ==
  IF Has(draw, "config") THEN rolled @@ [config |-> draw.config] ELSE rolled

\* mutant: a rejected draw is not caught
rollOnTable_NoCatch(tier, attackType, resultType, env) ==
  LET tableName == getTableName(tier, attackType, resultType)
      table == findTable(tableName, env)
  IN IF ~table.found
       THEN [calls |-> table.calls \o <<[fn |-> "notifications.error",
                                         tableName |-> tableName]>>,
             ret |-> [null |-> TRUE]]
     ELSE LET drawn == table.calls \o <<[fn |-> "draw", table |-> tableName,
                                         displayChat |-> FALSE]>>
          IN IF env.draw.kind = "throws"
               THEN [calls |-> drawn, ret |-> [thrown |-> TRUE]]
             ELSE IF env.draw.kind # "entry"
               THEN [calls |-> drawn, ret |-> [null |-> TRUE]]
               ELSE [calls |-> drawn,
                     ret |-> WithFlags(
                             [table |-> [name |-> tableName, tier |-> tier,
                                         attackType |-> attackType,
                                         resultType |-> resultType,
                                         formula |-> "1d100"],
                              result |-> [name |-> ParsedName(env.draw.text),
                                          description |->
                                            ParsedDescription(env.draw.text),
                                          weight |-> 1,
                                          range |-> <<env.roll, env.roll>>],
                              roll |-> env.roll,
                              type |-> resultType,
                              attackType |-> attackType,
                              tier |-> tier], env.draw)]

\* env.draw and env.roll are the outcome of table.draw() and of Math.random()
rollOnTable(tier, attackType, resultType, env) ==
  LET tableName == getTableName(tier, attackType, resultType)
      table == findTable(tableName, env)
  IN IF ~table.found
       THEN [calls |-> table.calls \o <<[fn |-> "notifications.error",
                                         tableName |-> tableName]>>,
             ret |-> [null |-> TRUE]]
     ELSE LET drawn == table.calls \o <<[fn |-> "draw", table |-> tableName,
                                         displayChat |-> FALSE]>>
          IN IF env.draw.kind # "entry"
               THEN [calls |-> drawn, ret |-> [null |-> TRUE]]
               ELSE [calls |-> drawn,
                     ret |-> WithFlags(
                             [table |-> [name |-> tableName, tier |-> tier,
                                         attackType |-> attackType,
                                         resultType |-> resultType,
                                         formula |-> "1d100"],
                              result |-> [name |-> ParsedName(env.draw.text),
                                          description |->
                                            ParsedDescription(env.draw.text),
                                          weight |-> 1,
                                          range |-> <<env.roll, env.roll>>],
                              roll |-> env.roll,
                              type |-> resultType,
                              attackType |-> attackType,
                              tier |-> tier], env.draw)]

----------------------------------------------------------------------------
(* TableImporter: the names of the tables it creates *)

TableImporter_TIERS == {1, 2, 3, 4}

TableImporter_ATTACK_TYPES == {"melee", "ranged", "spell"}

TableImporter_RESULT_TYPES == {"crits", "fumbles"}

ImportedTableName(tier, attackType, resultType) ==
  "tier" \o ToString(tier) \o "-" \o attackType \o "-" \o resultType

ImportedTableNames ==
  {ImportedTableName(t, a, r) : t \in TableImporter_TIERS,
                                a \in TableImporter_ATTACK_TYPES,
                                r \in TableImporter_RESULT_TYPES}

----------------------------------------------------------------------------
(* Tier and table selection as a system *)

SelectEnv(draw, roll) ==
  [useActorLevel |-> useActorLevelSetting, fixedTier |-> fixedTierSetting,
   tables |-> tables, draw |-> draw, roll |-> roll]

NoDraw == [kind |-> "empty"]

TierArgs ==
  WithOpt(WithOpt({[args |-> TRUE]}, "level", -1..MaxLevel), "cr", -1..MaxLevel)

\* the world's tables the host is seen to create and delete
WorldTables == {"tier1-melee-crits", "tier4-spell-fumbles", "Wild Magic Surge"}

ObserveSelect(record, issued) ==
  /\ op' = record
  /\ calls' = issued
  /\ pc' = "done"
  /\ UNCHANGED <<hostVars, applyEffects, statuses, combat, selectVars, moduleSettings>>

\* both breakpoint functions applied to the same number
TierFromLevelAndCR(x) ==
  /\ pc = "idle"
  /\ ObserveSelect([fn |-> "getTierFrom", x |-> x,
                    fromLevel |-> getTierFromLevel(x), fromCR |-> getTierFromCR(x)],
                   <<>>)

GetTier(args) ==
  /\ pc = "idle"
  /\ ObserveSelect([fn |-> "getTier", args |-> args,
                    useActorLevel |-> useActorLevelSetting,
                    fixedTier |-> fixedTierSetting,
                    ret |-> getTier(args, SelectEnv(NoDraw, 1))],
                   <<>>)

GetTableName(tier, attackType, resultType) ==
  /\ pc = "idle"
  /\ ObserveSelect([fn |-> "getTableName", tier |-> tier, attackType |-> attackType,
                    resultType |-> resultType,
                    ret |-> getTableName(tier, attackType, resultType)],
                   <<>>)

RollOnTable(tier, attackType, resultType, draw, roll) ==
  /\ pc = "idle"
  /\ LET out == rollOnTable(tier, attackType, resultType, SelectEnv(draw, roll))
     IN ObserveSelect([fn |-> "rollOnTable", tier |-> tier,
                       attackType |-> attackType, resultType |-> resultType,
                       tables |-> tables, draw |-> draw, ret |-> out.ret],
                      out.calls)

\* game.settings.set(MODULE_ID, 'useActorLevel', b)
SetUseActorLevel(b) ==
  /\ pc = "idle"
  /\ useActorLevelSetting # b
  /\ useActorLevelSetting' = b
  /\ UNCHANGED <<hostVars, moduleSettings, applyEffects, fixedTierSetting, tables, statuses, combat, pc, op,
                 calls>>

\* game.settings.set(MODULE_ID, 'fixedTier', t)
SetFixedTier(t) ==
  /\ pc = "idle"
  /\ fixedTierSetting # t
  /\ fixedTierSetting' = t
  /\ UNCHANGED <<hostVars, moduleSettings, applyEffects, useActorLevelSetting, tables, statuses, combat, pc,
                 op, calls>>

\* a roll table appears in the world
HostCreateTable(name) ==
  /\ pc = "idle"
  /\ name \notin tables
  /\ tables' = tables \cup {name}
  /\ UNCHANGED <<hostVars, moduleSettings, applyEffects, useActorLevelSetting, fixedTierSetting, statuses,
                 combat, pc, op, calls>>

\* a roll table is deleted from the world
HostDeleteTable(name) ==
  /\ pc = "idle"
  /\ name \in tables
  /\ tables' = tables \ {name}
  /\ UNCHANGED <<hostVars, moduleSettings, applyEffects, useActorLevelSetting, fixedTierSetting, statuses,
                 combat, pc, op, calls>>

NextSelect ==
  \/ Idle /\ \E x \in -3..MaxCR : TierFromLevelAndCR(x)
  \/ Idle /\ \E args \in TierArgs : GetTier(args)
  \/ Idle /\ \E tier \in TierNumbers, attackType \in ATTACK_TYPES,
                resultType \in RESULT_TYPES :
               GetTableName(tier, attackType, resultType)
  \/ Idle /\ \E tier \in TierNumbers, attackType \in ATTACK_TYPES,
                resultType \in RESULT_TYPES, draw \in DrawOutcomes,
                roll \in D100Rolls :
               RollOnTable(tier, attackType, resultType, draw, roll)
  \/ \E b \in BOOLEAN : SetUseActorLevel(b)
  \/ \E t \in FixedTierChoices : SetFixedTier(t)
  \/ \E name \in WorldTables : HostCreateTable(name)
  \/ \E name \in WorldTables : HostDeleteTable(name)
  \/ Return

SpecSelect == Init /\ [][NextSelect]_vars

----------------------------------------------------------------------------
(* C8: the level and CR breakpoints *)

\* the tier the breakpoints 4 / 8 / 12 assign to a number
TierOfBreakpoints(x) ==
  IF x <= 4 THEN 1 ELSE IF x <= 8 THEN 2 ELSE IF x <= 12 THEN 3 ELSE 4

\* C8: for every integer x, getTierFromLevel(x) and getTierFromCR(x) return the
\* same value: 1 for x <= 4, 2 for 5..8, 3 for 9..12 and 4 for x >= 13 (so values
\* of 0 or below give 1 and values above 20 or 30 give 4).
C8_Breakpoints ==
  Done("getTierFrom") =>
    /\ op.fromLevel = op.fromCR
    /\ op.fromLevel = TierOfBreakpoints(op.x)
    /\ (op.x <= 0) => op.fromLevel = 1
    /\ (op.x > 20) => op.fromCR = 4

\* the upper edge of tier 2
C8_Witness ==
  /\ Done("getTierFrom")
  /\ op.x = 8
  /\ op.fromLevel = 2
  /\ op.fromCR = 2

----------------------------------------------------------------------------
(* C9: TableSelector.getTier *)

FixedTierNumber(t) ==
  CASE t = "1" -> 1 [] t = "2" -> 2 [] t = "3" -> 3 [] t = "4" -> 4

\* C9: getTier(level, cr) returns, when use-actor-level is on: the breakpoint tier
\* of level if level is defined and > 0, else the breakpoint tier of cr if cr is
\* defined and >= 0, else the fixed tier; when the setting is off: the fixed tier,
\* whatever level and cr are. The result is always one of 1..4.
C9_TierPolicy ==
  Done("getTier") =>
    LET levelCounts == Has(op.args, "level") /\ op.args.level > 0
        crCounts == Has(op.args, "cr") /\ op.args.cr >= 0
    IN /\ op.ret \in 1..4
       /\ op.ret = IF ~op.useActorLevel THEN FixedTierNumber(op.fixedTier)
                   ELSE IF levelCounts THEN TierOfBreakpoints(op.args.level)
                   ELSE IF crCounts THEN TierOfBreakpoints(op.args.cr)
                   ELSE FixedTierNumber(op.fixedTier)

\* a level of 0 is passed over for the CR, although the fixed tier is 4
C9_Witness ==
  /\ Done("getTier")
  /\ op.useActorLevel
  /\ op.fixedTier = "4"
  /\ op.args = [args |-> TRUE, level |-> 0, cr |-> 9]
  /\ op.ret = 3

----------------------------------------------------------------------------
(* C10: table names *)

TableNameLiterals ==
  [melee |-> [crit |-> <<"tier1-melee-crits", "tier2-melee-crits",
                         "tier3-melee-crits", "tier4-melee-crits">>,
              fumble |-> <<"tier1-melee-fumbles", "tier2-melee-fumbles",
                           "tier3-melee-fumbles", "tier4-melee-fumbles">>],
   ranged |-> [crit |-> <<"tier1-ranged-crits", "tier2-ranged-crits",
                          "tier3-ranged-crits", "tier4-ranged-crits">>,
               fumble |-> <<"tier1-ranged-fumbles", "tier2-ranged-fumbles",
                            "tier3-ranged-fumbles", "tier4-ranged-fumbles">>],
   spell |-> [crit |-> <<"tier1-spell-crits", "tier2-spell-crits",
                         "tier3-spell-crits", "tier4-spell-crits">>,
              fumble |-> <<"tier1-spell-fumbles", "tier2-spell-fumbles",
                           "tier3-spell-fumbles", "tier4-spell-fumbles">>]]

SelectorTableNames ==
  {getTableName(t, a, r) : t \in TierNumbers, a \in ATTACK_TYPES, r \in RESULT_TYPES}

IsLookup(c) == c.fn \in {"tables.get", "tables.getName"}

\* C10: getTableName(N, category, kind) is the literal 'tierN-<category>-crits' or
\* 'tierN-<category>-fumbles'; the 24 names are pairwise distinct and are exactly
\* the names the importer creates; rollOnTable looks the table store up under
\* exactly that name and no other.
C10_TableNames ==
  /\ Done("getTableName") =>
       op.ret = TableNameLiterals[op.attackType][op.resultType][op.tier]
  /\ Done("rollOnTable") =>
       LET literal == TableNameLiterals[op.attackType][op.resultType][op.tier]
       IN /\ \E i \in 1..Len(calls) : IsLookup(calls[i])
          /\ \A i \in 1..Len(calls) : IsLookup(calls[i]) => calls[i].name = literal
          /\ \A i \in 1..Len(calls) : calls[i].fn = "draw" => calls[i].table = literal
          /\ (literal \notin op.tables) =>
               /\ op.ret = [null |-> TRUE]
               /\ \A i \in 1..Len(calls) : calls[i].fn # "draw"
  /\ Cardinality(SelectorTableNames) = 24
  /\ SelectorTableNames = ImportedTableNames

\* a tier-4 spell fumble is drawn from the table named 'tier4-spell-fumbles'
C10_Witness ==
  /\ Done("rollOnTable")
  /\ op.tier = 4
  /\ op.attackType = "spell"
  /\ op.resultType = RESULT_FUMBLE
  /\ "tier4-spell-fumbles" \in op.tables
  /\ \E i \in 1..Len(calls) : calls[i] = [fn |-> "draw", table |-> "tier4-spell-fumbles",
                                          displayChat |-> FALSE]
  /\ op.ret # [null |-> TRUE]
  /\ op.ret.table.name = "tier4-spell-fumbles"

----------------------------------------------------------------------------
(* Attack classification (types/midi-qol, TableSelector.getAttackType) *)

MaxActivities == 2

Undefined == "undefined"

\* an object with none of its optional fields
EmptyObject == [obj |-> TRUE]

\* activity.attack?.type is present
HasAttackType(activity) == Has(activity, "attack") /\ Has(activity.attack, "type")

\* item.activities is the list the three container forms are flattened to
getActionType(item) ==
  LET activityList == IF Has(item, "activities") THEN item.activities ELSE <<>>
      typed == {i \in 1..Len(activityList) : HasAttackType(activityList[i])}
  IN IF typed # {}
       THEN LET first == CHOOSE i \in typed : \A k \in typed : i <= k
                attackType == activityList[first].attack.type
                isRanged == Has(attackType, "value") /\ attackType.value = "ranged"
                isSpell == /\ Has(attackType, "classification")
                           /\ attackType.classification = "spell"
            IN IF isSpell
                 THEN (IF isRanged THEN "rsak" ELSE "msak")
                 ELSE (IF isRanged THEN "rwak" ELSE "mwak")
       ELSE IF item.type = "spell" THEN "rsak"
       ELSE IF item.type = "weapon" THEN "mwak"
       ELSE Undefined

isSpellAttack(item) == getActionType(item) \in {"msak", "rsak"}

isRangedAttack(item) == getActionType(item) \in {"rwak", "rsak"}

\* mutant: the ranged test comes first
getAttackType_RangedFirst(item) ==
  IF isRangedAttack(item) THEN "ranged"
  ELSE IF isSpellAttack(item) THEN "spell"
  ELSE "melee"

getAttackType(item) ==
  IF isSpellAttack(item) THEN "spell"
  ELSE IF isRangedAttack(item) THEN "ranged"
  ELSE "melee"

AttackTypeData ==
  WithOpt(WithOpt({EmptyObject}, "value", {"melee", "ranged"}),
          "classification", {"weapon", "spell"})

AttackData == {EmptyObject} \cup {[obj |-> TRUE, type |-> t] : t \in AttackTypeData}

Activities == WithOpt({[type |-> k] : k \in {"attack", "save"}}, "attack", AttackData)

ActivityLists == UNION {[1..n -> Activities] : n \in 0..MaxActivities}

ClassifiedItems ==
  WithOpt(WithOpt({[type |-> t] : t \in {"weapon", "spell", "feat"}},
                  "actionType", {"mwak", "rwak", "msak", "rsak"}),
          "activities", ActivityLists)

GetAttackType(item) ==
  /\ pc = "idle"
  /\ ObserveSelect([fn |-> "getAttackType", item |-> item,
                    ret |-> getAttackType(item)],
                   <<>>)

NextClassify ==
  \/ Idle /\ \E item \in ClassifiedItems : GetAttackType(item)
  \/ Return

SpecClassify == Init /\ [][NextClassify]_vars

----------------------------------------------------------------------------
(* C11: classification by structured activities *)

ItemActivities == IF Has(op.item, "activities") THEN op.item.activities ELSE <<>>

\* the melee/ranged/spell reading of one activity's attack data
ActivityReading(activity) ==
  LET data == IF HasAttackType(activity) THEN activity.attack.type ELSE EmptyObject
  IN IF Has(data, "classification") /\ data.classification = "spell" THEN "spell"
     ELSE IF Has(data, "value") /\ data.value = "ranged" THEN "ranged"
     ELSE "melee"

ItemTypeDefault == IF op.item.type = "spell" THEN "spell" ELSE "melee"

\* C11 (as stated): the first activity whose kind is 'attack' decides: 'spell' if
\* its classification is 'spell', else 'ranged' if its value is 'ranged', else
\* 'melee'; without such an activity the item type decides ('spell' for spells,
\* 'melee' for weapons); the result is always melee, ranged or spell.
C11_AsStated ==
  Done("getAttackType") =>
    LET kinds == {i \in 1..Len(ItemActivities) : ItemActivities[i].type = "attack"}
    IN /\ op.ret \in {"melee", "ranged", "spell"}
       /\ op.ret = IF kinds # {}
                     THEN ActivityReading(
                            ItemActivities[CHOOSE i \in kinds : \A k \in kinds : i <= k])
                     ELSE ItemTypeDefault

\* C11 (amended): the first activity that carries attack type data (attack.type),
\* whatever its kind tag, decides: 'spell' if its classification is 'spell', else
\* 'ranged' if its value is 'ranged', else 'melee'; without such an activity the
\* item type decides ('spell' for spells, 'melee' for weapons and everything else);
\* the result is always melee, ranged or spell.
C11_ActivityClassification ==
  Done("getAttackType") =>
    LET typed == {i \in 1..Len(ItemActivities) : HasAttackType(ItemActivities[i])}
    IN /\ op.ret \in {"melee", "ranged", "spell"}
       /\ op.ret = IF typed # {}
                     THEN ActivityReading(
                            ItemActivities[CHOOSE i \in typed : \A k \in typed : i <= k])
                     ELSE ItemTypeDefault

\* a ranged spell attack activity on a weapon: the classification wins
C11_Witness ==
  /\ Done("getAttackType")
  /\ op.item = [type |-> "weapon",
                activities |-> <<[type |-> "attack",
                                  attack |-> [obj |-> TRUE,
                                              type |-> [obj |-> TRUE,
                                                        value |-> "ranged",
                                                        classification |-> "spell"]]]>>]
  /\ op.ret = "spell"

----------------------------------------------------------------------------
(* C12: the legacy action-type code *)

LegacyReading(code) ==
  CASE code = "rwak" -> "ranged"
    [] code = "mwak" -> "melee"
    [] code \in {"msak", "rsak"} -> "spell"

\* C12 (as stated): an item without structured activities that carries a legacy
\* action-type code is classified by the code (rwak: ranged, mwak: melee, msak and
\* rsak: spell) whatever its type; the item-type default applies only when there
\* is neither.
C12_AsStated ==
  (Done("getAttackType") /\ ItemActivities = <<>>) =>
    op.ret = IF Has(op.item, "actionType")
               THEN LegacyReading(op.item.actionType)
               ELSE ItemTypeDefault

----------------------------------------------------------------------------
(* C13: rollOnTable reports every failure as null *)

NullResult == [null |-> TRUE]

CallsOf(fn) == SelectSeq(calls, LAMBDA c : c.fn = fn)

RollFailed ==
  /\ Done("rollOnTable")
  /\ \/ getTableName(op.tier, op.attackType, op.resultType) \notin op.tables
     \/ op.draw.kind \in {"throws", "empty"}

RollFailureReported ==
  RollFailed =>
    /\ op.ret = NullResult
    /\ IF getTableName(op.tier, op.attackType, op.resultType) \notin op.tables
         THEN /\ Len(CallsOf("notifications.error")) = 1
              /\ CallsOf("draw") = <<>>
         ELSE /\ CallsOf("notifications.error") = <<>>
              /\ Len(CallsOf("draw")) = 1
    /\ \A i \in 1..Len(calls) :
         calls[i].fn \in {"tables.get", "tables.getName", "notifications.error", "draw"}

\* C13: rollOnTable completes with null on every failure: without a table of the
\* computed name, after exactly one error notification and no draw request; with
\* a draw that throws or yields no entry, after the one draw request; and the step
\* leaves every actor's statuses, the combat and the table store as they were.
C13_NullOnFailure ==
  [][/\ RollFailureReported'
     /\ (pc = "idle" /\ RollFailed') => UNCHANGED <<statuses, combat, tables>>]_vars

\* the table exists and its draw throws
C13_Witness ==
  /\ RollFailed
  /\ op.draw.kind = "throws"
  /\ getTableName(op.tier, op.attackType, op.resultType) \in op.tables
  /\ op.ret = NullResult
  /\ Len(CallsOf("draw")) = 1

----------------------------------------------------------------------------
(* The damage handler and its formula resolution on their own *)

MaxDice == 3

DiceLetters == {"W", "w", "S", "s"}

DiceFormulas ==
  {ToString(n) \o l : n \in 0..MaxDice, l \in DiceLetters}
    \cup {"02W", "12S", "2d6", "1d8+3", "W", "2W+1", "2X", "w2"}

DamageParts ==
  {<<>>, <<<<"1d8+3", "slashing">>>>, <<<<"2d6", "">>>>, <<<<"1D12", "fire">>>>,
   <<<<"5", "cold">>>>, <<<<"", "necrotic">>>>,
   <<<<"1d4+1d10", "force">>, <<"2d6", "fire">>>>}

DamageItems ==
  {NoItem} \cup WithOpt({[id |-> "item", type |-> t] : t \in {"weapon", "spell"}},
                        "parts", DamageParts)

DamageConfigs ==
  WithOpt(WithOpt({[effectType |-> EFFECT_DAMAGE]}, "damageFormula",
                  {"2W", "1d6", "3s", ""}),
          "damageType", {"weapon", "spell", "fire", ""})

DamageFaults == {"none", "roll", "message", "damage"}

ResolveWeaponDiceFormula(formula, sourceItem) ==
  /\ pc = "idle"
  /\ ObserveSelect([fn |-> "resolveWeaponDiceFormula", formula |-> formula,
                    item |-> sourceItem,
                    ret |-> resolveWeaponDiceFormula(formula, sourceItem)],
                   <<>>)

ApplyDamage(token, config, sourceItem, fault) ==
  /\ pc = "idle"
  /\ Observe(applyDamage(Thread(statuses), token, config, sourceItem, Env(fault)),
             [fn |-> "applyDamage", token |-> token, config |-> config,
              item |-> sourceItem, fault |-> fault])

NextDamage ==
  \/ Idle /\ \E formula \in DiceFormulas, sourceItem \in DamageItems :
               ResolveWeaponDiceFormula(formula, sourceItem)
  \/ Idle /\ \E token \in {"t1", "tX"}, config \in DamageConfigs,
                sourceItem \in DamageItems, fault \in DamageFaults :
               ApplyDamage(token, config, sourceItem, fault)
  \/ Return

SpecDamage == Init /\ [][NextDamage]_vars

----------------------------------------------------------------------------
(* C14: weapon and spell dice formulas *)

\* the die of the first damage entry of the item ("" when it has none)
FirstEntryDie(item) ==
  IF ~Has(item, "parts") \/ item.parts = <<>>
    THEN ""
    ELSE CASE item.parts[1][1] = "1d8+3" -> "d8"
           [] item.parts[1][1] = "2d6" -> "d6"
           [] item.parts[1][1] = "1D12" -> "d12"
           [] item.parts[1][1] = "1d4+1d10" -> "d4"
           [] OTHER -> ""

\* the ways the count n is written in a formula
Spelled(n) == {ToString(n), "0" \o ToString(n)}

\* C14: resolveWeaponDiceFormula: a formula 'NW' or 'Nw' (N >= 0) becomes N
\* followed by the die of the item's first damage entry, or 'Nd6' when the item
\* is absent or has no such die; 'NS' or 'Ns' the same with default 'Nd8'; every
\* other formula is returned unchanged.
C14_DiceFormula ==
  Done("resolveWeaponDiceFormula") =>
    LET counts == {n \in 0..(MaxDice + 10) :
                     \E sp \in Spelled(n), l \in DiceLetters : op.formula = sp \o l}
        letter == SubSeq(op.formula, Len(op.formula), Len(op.formula))
        die == FirstEntryDie(op.item)
    IN IF counts = {}
         THEN op.ret = op.formula
         ELSE \A n \in counts :
                op.ret = ToString(n) \o
                           (IF die # "" THEN die
                            ELSE IF letter \in {"W", "w"} THEN "d6" ELSE "d8")

\* '3s' on an item whose first damage entry has no die
C14_Witness ==
  /\ Done("resolveWeaponDiceFormula")
  /\ op.formula = "3s"
  /\ Has(op.item, "parts")
  /\ op.item.parts = <<<<"5", "cold">>>>
  /\ op.ret = "3d8"

----------------------------------------------------------------------------
(* C15: the damage type handed to the damage collaborator *)

\* the damage types the collaborator calls of the invocation carry
HandedDamageTypes ==
  {c.detail[1].type : c \in {x \in Range(calls) : x.fn = "applyTokenDamage"}}

FirstEntryType(item) ==
  IF Has(item, "parts") /\ item.parts # <<>> THEN item.parts[1][2] ELSE ""

\* C15 (as stated): the damage collaborator is handed: for 'weapon' the item's
\* first damage-entry type, or 'bludgeoning' if there is none; for 'spell' the
\* item's first damage-entry type, or 'force' if there is none; any other
\* configured value literally; 'bludgeoning' for an absent value.
C15_AsStated ==
  (Done("applyDamage") /\ op.fault = "none" /\ calls # <<>>) =>
    LET configured == IF Has(op.config, "damageType") /\ op.config.damageType # ""
                        THEN op.config.damageType ELSE ""
        entry == FirstEntryType(op.item)
    IN HandedDamageTypes =
         {IF configured = "" THEN "bludgeoning"
          ELSE IF configured = "weapon"
            THEN (IF entry # "" THEN entry ELSE "bludgeoning")
          ELSE IF configured = "spell"
            THEN (IF entry # "" THEN entry ELSE "force")
          ELSE configured}

----------------------------------------------------------------------------
(* MidiQolHooks: the attack-roll-complete handler *)

SOUNDS_CRIT == "sounds/combat/epic-start-3hit.ogg"

SOUNDS_FUMBLE == "sounds/combat/epic-turn-2hit.ogg"

\* a d20 face value that is null
NullFace == [null |-> TRUE]

getD20Result(workflow) ==
  IF ~Has(workflow, "attackRoll")
    THEN NullFace
    ELSE LET terms == workflow.attackRoll.terms
             d20s == {i \in 1..Len(terms) :
                        /\ Has(terms[i], "faces") /\ terms[i].faces = 20
                        /\ Has(terms[i], "results") /\ Len(terms[i].results) > 0}
         IN IF d20s = {}
              THEN NullFace
              ELSE LET results == terms[CHOOSE i \in d20s : \A k \in d20s : i <= k].results
                       actives == {k \in 1..Len(results) : results[k].active}
                   IN IF actives = {}
                        THEN NullFace
                        ELSE [value |-> results[CHOOSE k \in actives :
                                                  \A j \in actives : k <= j].result]

\* d20Result === n
FaceIs(d20Result, n) == Has(d20Result, "value") /\ d20Result.value = n

\* mutant: a natural 20 counts whatever the host flag says
IsCrit_DieFirst(workflow) ==
  \/ FaceIs(getD20Result(workflow), 20)
  \/ Has(workflow, "isCritical") /\ workflow.isCritical

\* workflow.isCritical ?? d20Result === 20
IsCrit(workflow) ==
  IF Has(workflow, "isCritical")
    THEN workflow.isCritical
    ELSE FaceIs(getD20Result(workflow), 20)

\* workflow.isFumble ?? d20Result === 1
IsFumble(workflow) ==
  IF Has(workflow, "isFumble")
    THEN workflow.isFumble
    ELSE FaceIs(getD20Result(workflow), 1)

areCritsEnabled(env) == env.settings.enabled /\ env.settings.enableCrits

areFumblesEnabled(env) == env.settings.enabled /\ env.settings.enableFumbles

shouldShowChatMessages(env) == env.settings.showChatMessages

\* a synchronous throw or a rejected await inside the handler
Thrown(th) == [th EXCEPT !.rejected = TRUE]

\* foundry.audio.AudioHelper.play({ src, volume: 0.8 }, true)
HostAudioPlay(th, src, fault) ==
  Issue(th, [fn |-> "AudioHelper.play", src |-> src], fault = "audio")

\* ChatMessage.create({ content, speaker, style, flags })
displayResult(th, result, attackerName, targetName, env) ==
  IF ~shouldShowChatMessages(env)
    THEN th
    ELSE Issue(th, [fn |-> "ChatMessage.create", attacker |-> attackerName,
                    target |-> targetName, resultType |-> result.type,
                    attackType |-> result.attackType, tier |-> result.tier],
               env.fault = "chat")

\* TableSelector.rollCriticalHit / rollFumble: getTier, then rollOnTable
RollFor(th, workflow, resultType, env) ==
  LET attackType == getAttackType(workflow.item)
      tier == getTier(workflow.details, env)
      out == rollOnTable(tier, attackType, resultType, env)
  IN [th |-> [th EXCEPT !.calls = @ \o out.calls], ret |-> out.ret]

\* mutant: every target's effect is applied before its chat message is shown
RECURSIVE CritLoop_ApplyFirst(_, _, _, _, _)
CritLoop_ApplyFirst(th, result, targets, workflow, env) ==
  IF targets = <<>>
    THEN th
    ELSE LET applied == applyResult(th, result, Head(targets), workflow.actor,
                                    workflow.item, env)
             shown == displayResult(applied, result, workflow.actor.name,
                                    Head(targets), env)
         IN IF shown.rejected
              THEN shown
              ELSE CritLoop_ApplyFirst(shown, result, Tail(targets), workflow, env)

\* for (const targetToken of targets) { await displayResult; await applyResult }
RECURSIVE CritLoop(_, _, _, _, _)
CritLoop(th, result, targets, workflow, env) ==
  IF targets = <<>>
    THEN th
    ELSE LET shown == displayResult(th, result, workflow.actor.name, Head(targets),
                                    env)
         IN IF shown.rejected
              THEN shown
              ELSE CritLoop(applyResult(shown, result, Head(targets), workflow.actor,
                                        workflow.item, env),
                            result, Tail(targets), workflow, env)

handleCriticalHit(th, workflow, env) ==
  LET played == HostAudioPlay(th, SOUNDS_CRIT, env.fault)
      rolled == RollFor(played, workflow, RESULT_CRIT, env)
      targets == IF Has(workflow, "hitTargets") THEN workflow.hitTargets
                 ELSE workflow.targets
  IN IF played.rejected THEN played
     ELSE IF Has(rolled.ret, "null") THEN rolled.th
     ELSE IF Len(targets) = 0
       THEN displayResult(rolled.th, rolled.ret, workflow.actor.name, "their target",
                          env)
     ELSE CritLoop(rolled.th, rolled.ret, targets, workflow, env)

handleFumble(th, workflow, env) ==
  LET played == HostAudioPlay(th, SOUNDS_FUMBLE, env.fault)
      rolled == RollFor(played, workflow, RESULT_FUMBLE, env)
      actorTokens == workflow.actor.activeTokens
      shown == displayResult(rolled.th, rolled.ret, workflow.actor.name,
                             workflow.actor.name, env)
  IN IF played.rejected THEN played
     ELSE IF Has(rolled.ret, "null") THEN rolled.th
     ELSE IF Len(actorTokens) = 0 THEN rolled.th
     ELSE IF shown.rejected THEN shown
     ELSE applyFumbleResult(shown, rolled.ret, actorTokens[1], workflow.targets,
                            workflow.actor, workflow.item, env)

\* the body of the try block; env.fault = "settings" makes a settings read throw
AttackRollBody(th, workflow, env) ==
  LET afterCrit ==
        IF ~IsCrit(workflow) THEN th
        ELSE IF env.fault = "settings" THEN Thrown(th)
        ELSE IF areCritsEnabled(env) THEN handleCriticalHit(th, workflow, env)
        ELSE th
  IN IF afterCrit.rejected THEN afterCrit
     ELSE IF ~IsFumble(workflow) THEN afterCrit
     ELSE IF env.fault = "settings" THEN Thrown(afterCrit)
     ELSE IF areFumblesEnabled(env) THEN handleFumble(afterCrit, workflow, env)
     ELSE afterCrit

\* mutant: no try/catch around the body
onAttackRollComplete_NoCatch(th, workflow, env) == AttackRollBody(th, workflow, env)

onAttackRollComplete(th, workflow, env) == Caught(AttackRollBody(th, workflow, env))

----------------------------------------------------------------------------
(* The attack event as a system *)

\* the d20 term of an attack roll, by its results
D20Term(results) == [faces |-> 20, number |-> Len(results), results |-> results]

AttackRolls ==
  {[terms |-> <<D20Term(<<[result |-> 20, active |-> TRUE]>>), [number |-> 5]>>],
   [terms |-> <<D20Term(<<[result |-> 1, active |-> TRUE]>>)>>],
   [terms |-> <<D20Term(<<[result |-> 20, active |-> FALSE],
                          [result |-> 1, active |-> TRUE]>>)>>],
   [terms |-> <<D20Term(<<[result |-> 20, active |-> FALSE]>>)>>]}

\* the fumbler: a level-5 character with one active token, attacking with a sword
Attacker ==
  [id |-> "aF", name |-> "aF", activeTokens |-> <<"tF">>]

Workflows ==
  WithOpt(WithOpt(WithOpt(WithOpt(
    [actor : {Attacker}, item : {Sword}, details : {[args |-> TRUE, level |-> 5]},
     targets : {<<>>, <<"t1", "t2">>}],
    "hitTargets", {<<>>, <<"t2", "t1">>}),
    "attackRoll", AttackRolls),
    "isCritical", BOOLEAN),
    "isFumble", BOOLEAN)

HookDraws ==
  {[kind |-> "throws"], [kind |-> "entry", text |-> "Stumble"]}
    \cup [kind : {"entry"}, text : {"Pin Down - Target is pinned"},
          config : {[effectType |-> EFFECT_CONDITION,
                     effectCondition |-> "spell_locked"],
                    [effectType |-> EFFECT_DISADVANTAGE,
                     advantageScope |-> [single |-> "attack.all"],
                     advantageTarget |-> "grants"]}]

HookFaults == {"none", "settings", "audio", "chat", "create"}

HookTables == {"tier2-melee-crits", "tier2-melee-fumbles"}

HookEnv(fault, draw) ==
  [fault |-> fault, combat |-> combat, applyEffects |-> applyEffects, total |-> 7,
   useActorLevel |-> useActorLevelSetting, fixedTier |-> fixedTierSetting,
   tables |-> tables, draw |-> draw, roll |-> 1, settings |-> moduleSettings]

OnAttackRollComplete(workflow, draw, fault) ==
  /\ pc = "idle"
  /\ LET th == onAttackRollComplete(Thread(statuses), workflow, HookEnv(fault, draw))
     IN Observe(th, [fn |-> "onAttackRollComplete", workflow |-> workflow,
                     draw |-> draw, fault |-> fault, settings |-> moduleSettings,
                     tables |-> tables,
                     outcome |-> IF th.rejected THEN "rejected" ELSE "fulfilled"])

\* game.settings.set(MODULE_ID, 'enableCrits', b)
SetEnableCrits(b) ==
  /\ pc = "idle"
  /\ moduleSettings.enableCrits # b
  /\ moduleSettings' = [moduleSettings EXCEPT !.enableCrits = b]
  /\ UNCHANGED <<hostVars, applyEffects, selectVars, statuses, combat, pc, op, calls>>

\* game.settings.set(MODULE_ID, 'showChatMessages', b)
SetShowChatMessages(b) ==
  /\ pc = "idle"
  /\ moduleSettings.showChatMessages # b
  /\ moduleSettings' = [moduleSettings EXCEPT !.showChatMessages = b]
  /\ UNCHANGED <<hostVars, applyEffects, selectVars, statuses, combat, pc, op, calls>>

NextHook ==
  \/ Idle /\ \E workflow \in Workflows, draw \in HookDraws, fault \in HookFaults :
               OnAttackRollComplete(workflow, draw, fault)
  \/ \E b \in BOOLEAN : SetEnableCrits(b)
  \/ \E b \in BOOLEAN : SetShowChatMessages(b)
  \/ \E name \in HookTables : HostCreateTable(name)
  \/ Return

SpecHook == Init /\ [][NextHook]_vars

----------------------------------------------------------------------------
(* C16: the handler never propagates an exception *)

\* C16: whatever a collaborator does during the attack-roll-complete handler (a
\* settings read, the sound, the table draw, the chat post or the effect creation
\* throwing or rejecting), the handler's invocation completes normally.
C16_NeverPropagates ==
  Done("onAttackRollComplete") => op.outcome = "fulfilled"

\* the chat post rejects: nothing follows it and the handler still completes
C16_Witness ==
  /\ Done("onAttackRollComplete")
  /\ op.fault = "chat"
  /\ calls # <<>>
  /\ calls[Len(calls)].fn = "ChatMessage.create"
  /\ op.outcome = "fulfilled"

----------------------------------------------------------------------------
(* C17: chat display and effect application, target by target *)

FlowRan(src) == \E i \in 1..Len(calls) : calls[i] = [fn |-> "AudioHelper.play", src |-> src]

IsChat(c) == c.fn = "ChatMessage.create"

IsEffectCall(c) ==
  c.fn \notin {"AudioHelper.play", "tables.get", "tables.getName",
               "notifications.error", "draw", "ChatMessage.create"}

\* what the handler did after the table draw: chat posts by target name and effect
\* calls by the actor they act on
AfterDraw ==
  LET steps == SelectSeq(calls, LAMBDA c : IsChat(c) \/ IsEffectCall(c))
  IN [j \in 1..Len(steps) |->
        IF IsChat(steps[j]) THEN <<"chat", steps[j].target>>
                            ELSE <<"effect", steps[j].actor>>]

CritTargets ==
  IF Has(op.workflow, "hitTargets") THEN op.workflow.hitTargets ELSE op.workflow.targets

\* chat for t, then the effect on t's actor, for each target in turn; a rejected
\* chat post ends the flow
RECURSIVE OneAtATime(_, _, _, _)
OneAtATime(targets, shows, applies, chatRejects) ==
  IF targets = <<>>
    THEN <<>>
    ELSE (IF shows THEN <<<<"chat", Head(targets)>>>> ELSE <<>>)
           \o (IF shows /\ chatRejects
                 THEN <<>>
                 ELSE (IF applies THEN <<<<"effect", TokenActor[Head(targets)]>>>>
                                  ELSE <<>>)
                        \o OneAtATime(Tail(targets), shows, applies, chatRejects))

\* C17: in the crit flow with hit targets t1..tn the chat display for ti comes
\* before the effect application for ti, which comes before the chat display for
\* t(i+1), in iteration order; in the fumble flow the one chat display comes before
\* everything applyFumbleResult does.
C17_OneTargetAtATime ==
  Done("onAttackRollComplete") =>
    /\ (FlowRan(SOUNDS_CRIT) /\ ~FlowRan(SOUNDS_FUMBLE) /\ CritTargets # <<>>
          /\ op.draw.kind = "entry"
          /\ \E i \in 1..Len(calls) : calls[i].fn = "draw") =>
         AfterDraw = OneAtATime(CritTargets, op.settings.showChatMessages,
                                Has(op.draw, "config"), op.fault = "chat")
    /\ (FlowRan(SOUNDS_FUMBLE) /\ ~FlowRan(SOUNDS_CRIT)) =>
         \A j \in 1..Len(AfterDraw) :
           (AfterDraw[j][1] = "chat") =>
             /\ j = 1
             /\ AfterDraw[j][2] = op.workflow.actor.name

\* two hit targets, each shown and then affected, in the order of the hit list
C17_Witness ==
  /\ Done("onAttackRollComplete")
  /\ FlowRan(SOUNDS_CRIT)
  /\ ~FlowRan(SOUNDS_FUMBLE)
  /\ AfterDraw = <<<<"chat", "t2">>, <<"effect", "a2">>,
                   <<"chat", "t1">>, <<"effect", "a1">>>>

----------------------------------------------------------------------------
(* C18: host flags take precedence over the die *)

\* the active results of the 20-faced terms of the attack roll
ActiveFaces(workflow) ==
  IF ~Has(workflow, "attackRoll")
    THEN {}
    ELSE UNION {{r.result : r \in {x \in Range(t.results) : x.active}} :
                  t \in {x \in Range(workflow.attackRoll.terms) :
                           Has(x, "faces") /\ x.faces = 20}}

CountsAsCrit(workflow) ==
  IF Has(workflow, "isCritical") THEN workflow.isCritical
  ELSE 20 \in ActiveFaces(workflow)

CountsAsFumble(workflow) ==
  IF Has(workflow, "isFumble") THEN workflow.isFumble
  ELSE 1 \in ActiveFaces(workflow)

----------------------------------------------------------------------------
(* The per-kind handlers called on their own *)

MaxScopes == 2

AdvantageScopes ==
  {"all", "attack.all", "attack.mwak", "attack.rwak", "attack.msak", "attack.rsak",
   "ability.all", "ability.str", "ability.dex", "ability.con", "ability.int",
   "ability.wis", "ability.cha", "save.all", "save.str", "save.dex", "save.con",
   "save.int", "save.wis", "save.cha", "concentration"}

\* scope lists are drawn from a few scopes, one of them undeclared
ListedScopes == {"attack.mwak", "save.dex", "ability.all", "concentration", "bogus"}

ScopeValues ==
  {[single |-> s] : s \in AdvantageScopes \cup {"bogus"}}
    \cup {[list |-> l] : l \in UNION {[1..n -> ListedScopes] : n \in 0..MaxScopes}}

ScopeConfigs ==
  WithOpt(WithOpt([effectType : {EFFECT_ADVANTAGE, EFFECT_DISADVANTAGE}],
                  "advantageScope", ScopeValues),
          "advantageTarget", {"self", "grants"})

NamedConditionConfigs ==
  WithOpt({[effectType |-> EFFECT_CONDITION]}, "effectCondition", {"spell_locked", ""})

SaveConfigs ==
  WithOpt(WithOpt(WithOpt(WithOpt({[effectType |-> EFFECT_SAVE]},
                                  "saveDC", {0, 15}),
                          "saveAbility", {"dex", ""}),
                  "effectCondition", {"spell_locked"}),
          "damageFormula", {"2W"})

PenaltyConfigs ==
  WithOpt(WithOpt(WithOpt({[effectType |-> EFFECT_PENALTY]}, "penaltyType",
                          {"ac", "attack", ""}),
                  "penaltyValue", {-2, 0}),
          "duration", Durations)

DisarmActors == {NoActor, [id |-> "aF"], [id |-> "a2"]}

DisarmItems ==
  {NoItem, Sword, Bolt, [id |-> "ghost", type |-> "weapon"],
   [id |-> "potion", type |-> "consumable"]}

HandlerTokens == {"t1", "tX"}

HandlerFaults == {"none", "create", "update", "roll", "message", "damage"}

HandleSaveEffect(token, config, fault) ==
  /\ pc = "idle"
  /\ Observe(handleSaveEffect(Thread(statuses), token, config, Env(fault)),
             [fn |-> "handleSaveEffect", token |-> token, config |-> config,
              fault |-> fault])

ApplyPenalty(token, config, fault) ==
  /\ pc = "idle"
  /\ Observe(applyPenalty(Thread(statuses), token, config, Env(fault)),
             [fn |-> "applyPenalty", token |-> token, config |-> config,
              fault |-> fault])

ApplyDisarm(sourceActor, sourceItem, fault) ==
  /\ pc = "idle"
  /\ Observe(applyDisarm(Thread(statuses), sourceActor, sourceItem, Env(fault)),
             [fn |-> "applyDisarm", actor |-> sourceActor, item |-> sourceItem,
              fault |-> fault])

NextHandlers ==
  \/ Idle /\ \E token \in HandlerTokens, config \in NamedConditionConfigs,
                fault \in HandlerFaults :
               ApplyCondition(token, config, fault)
  \/ Idle /\ \E token \in HandlerTokens, config \in DamageConfigs,
                sourceItem \in {NoItem, Sword}, fault \in HandlerFaults :
               ApplyDamage(token, config, sourceItem, fault)
  \/ Idle /\ \E token \in HandlerTokens, config \in SaveConfigs,
                fault \in HandlerFaults :
               HandleSaveEffect(token, config, fault)
  \/ Idle /\ \E token \in HandlerTokens, config \in PenaltyConfigs,
                fault \in HandlerFaults :
               ApplyPenalty(token, config, fault)
  \/ Idle /\ \E token \in HandlerTokens, config \in ScopeConfigs,
                fault \in HandlerFaults :
               ApplyAdvantageDisadvantage(token, config, fault)
  \/ Idle /\ \E sourceActor \in DisarmActors, sourceItem \in DisarmItems,
                fault \in HandlerFaults :
               ApplyDisarm(sourceActor, sourceItem, fault)
  \/ Return

SpecHandlers == Init /\ [][NextHandlers]_vars

----------------------------------------------------------------------------
(* C19: scopes and flag keys *)

\* the part of s after its first n characters
Rest(s, n) == SubSeq(s, n + 1, Len(s))

ExpectedSuffix(scope) ==
  IF StartsWith(scope, "ability.") THEN "ability.check." \o Rest(scope, 8)
  ELSE IF StartsWith(scope, "save.") THEN "ability.save." \o Rest(scope, 5)
  ELSE scope

RECURSIVE ExpectedKeys(_, _)
ExpectedKeys(scopes, prefix) ==
  IF scopes = <<>>
    THEN <<>>
    ELSE (IF Head(scopes) \in AdvantageScopes
            THEN <<prefix \o "." \o ExpectedSuffix(Head(scopes))>>
            ELSE <<>>)
           \o ExpectedKeys(Tail(scopes), prefix)

\* C19: for each of the 21 declared scopes, each type and each target the created
\* document carries the key P.<suffix>, P = flags.midi-qol.<type> for self and
\* flags.midi-qol.grants.<type> for grants, <suffix> = the scope for 'all',
\* 'attack.*' and 'concentration', 'ability.check.<x>' for 'ability.<x>' and
\* 'ability.save.<x>' for 'save.<x>'; a list of scopes yields one document with
\* the keys of all listed scopes in order; an undeclared scope contributes no key.
C19_ScopeKeys ==
  (Done("applyAdvantageDisadvantage") /\ HasActor(op.token)
     /\ Has(op.config, "advantageScope")) =>
    LET scopes == IF Has(op.config.advantageScope, "list")
                    THEN op.config.advantageScope.list
                    ELSE <<op.config.advantageScope.single>>
        grants == Has(op.config, "advantageTarget")
                    /\ op.config.advantageTarget = "grants"
        prefix == IF grants THEN "flags.midi-qol.grants." \o op.config.effectType
                            ELSE "flags.midi-qol." \o op.config.effectType
        keys == ExpectedKeys(scopes, prefix)
    IN IF keys = <<>>
         THEN calls = <<>>
         ELSE /\ Len(calls) = 1
              /\ IsCreate(calls[1])
              /\ Len(calls[1].docs) = 1
              /\ [i \in 1..Len(calls[1].docs[1].changes) |->
                    calls[1].docs[1].changes[i].key] = keys

\* a list of two declared scopes, target grants
C19_Witness ==
  /\ Done("applyAdvantageDisadvantage")
  /\ op.config = [effectType |-> EFFECT_DISADVANTAGE,
                  advantageScope |-> [list |-> <<"save.dex", "ability.all">>],
                  advantageTarget |-> "grants"]
  /\ op.token = "t1"
  /\ Len(calls) = 1
  /\ [i \in 1..2 |-> calls[1].docs[1].changes[i].key] =
       <<"flags.midi-qol.grants.disadvantage.ability.save.dex",
         "flags.midi-qol.grants.disadvantage.ability.check.all">>

----------------------------------------------------------------------------
(* C20: missing fields and missing targets *)

Missing(r, f) == ~Has(r, f) \/ r[f] = ""

\* the invocation lacks a field or a target its handler requires
LacksRequired ==
  \/ /\ Done("applyCondition")
     /\ Missing(op.config, "effectCondition") \/ ~HasActor(op.token)
  \/ /\ Done("applyDamage")
     /\ Missing(op.config, "damageFormula") \/ ~HasActor(op.token)
  \/ /\ Done("handleSaveEffect")
     /\ \/ ~Has(op.config, "saveDC")
        \/ Missing(op.config, "saveAbility")
        \/ ~HasActor(op.token)
  \/ /\ Done("applyPenalty")
     /\ \/ Missing(op.config, "penaltyType")
        \/ ~Has(op.config, "penaltyValue")
        \/ ~HasActor(op.token)
  \/ /\ Done("applyAdvantageDisadvantage")
     /\ ~Has(op.config, "advantageScope") \/ ~HasActor(op.token)
  \/ /\ Done("applyDisarm")
     /\ \/ ~Has(op.actor, "id")
        \/ ~Has(op.item, "id")
        \/ ~Has(ActorItems[op.actor.id], op.item.id)
        \/ ActorItems[op.actor.id][op.item.id] # "weapon"

\* C20: a per-kind handler called without a field it requires or without a target
\* (condition: name, token actor; damage: formula, actor; save: DC, ability code,
\* actor; penalty: kind, value, actor; advantage/disadvantage: scope, actor;
\* disarm: source actor, source item, item on the actor, weapon item) completes
\* without issuing any host call and leaves every actor's statuses unchanged.
C20_MissingFieldNoOp ==
  LacksRequired =>
    /\ calls = <<>>
    /\ statuses = op.before

\* disarm with the spell the attacker cast: found on the actor, not a weapon
C20_Witness ==
  /\ Done("applyDisarm")
  /\ op.actor = [id |-> "aF"]
  /\ op.item = Bolt
  /\ calls = <<>>

----------------------------------------------------------------------------
(* C23: value and mode of the advantage/disadvantage changes *)

\* every change entry of every document handed to effect creation
CreatedChanges ==
  UNION {UNION {Range(doc.changes) : doc \in Range(c.docs)} :
           c \in {x \in Range(calls) : IsCreate(x)}}

\* C23 as stated: every change entry of a document created by the
\* advantage/disadvantage handler has value "1" and the OVERRIDE change mode.
C23_AsStated ==
  Done("applyAdvantageDisadvantage") =>
    \A ch \in CreatedChanges : ch.value = "1" /\ ch.mode = MODE_OVERRIDE

\* C23: every change entry of a document created by the advantage/disadvantage
\* handler has value "1" and the CUSTOM change mode.
C23_ChangeEntries ==
  Done("applyAdvantageDisadvantage") =>
    \A ch \in CreatedChanges : ch.value = "1" /\ ch.mode = MODE_CUSTOM

\* a document with two flag changes was created
C23_Witness ==
  /\ Done("applyAdvantageDisadvantage")
  /\ Len(calls) = 1
  /\ IsCreate(calls[1])
  /\ Len(calls[1].docs[1].changes) = 2

----------------------------------------------------------------------------
(* C24: the penalty document *)

PenaltyApplies ==
  /\ Done("applyPenalty")
  /\ HasActor(op.token)
  /\ Truthy(op.config, "penaltyType")
  /\ Has(op.config, "penaltyValue")

PenaltyDuration == IF Has(op.config, "duration") THEN op.config.duration ELSE -1

\* C24 as stated: the penalty document's duration block follows the sentinel
\* rules of conditions (-1 or absent: seconds and rounds null; 0: turns = 1;
\* d > 0: rounds = d) and its single change is additive on the AC bonus path
\* for kind 'ac' and on the all-attack bonus path for kind 'attack', with the
\* penalty value as a string.
C24_AsStated ==
  (PenaltyApplies /\ PenaltyDuration >= -1) =>
    /\ Len(calls) = 1
    /\ IsCreate(calls[1])
    /\ Len(calls[1].docs) = 1
    /\ LET doc == calls[1].docs[1]
           d == PenaltyDuration
       IN /\ doc.changes =
               <<[key |-> IF op.config.penaltyType = "ac"
                            THEN "system.attributes.ac.bonus"
                            ELSE "system.bonuses.All.attack",
                  mode |-> MODE_ADD,
                  value |-> ToString(op.config.penaltyValue)]>>
          /\ CASE d = -1 -> /\ Has(doc.duration, "seconds")
                            /\ doc.duration.seconds = Null
                            /\ doc.duration.rounds = Null
               [] d = 0 -> Has(doc.duration, "turns") /\ doc.duration.turns = 1
               [] OTHER -> doc.duration.rounds = d

----------------------------------------------------------------------------
(* C25: a save effect is applied as on a failed save *)

SaveApplies ==
  /\ Done("handleSaveEffect")
  /\ Has(op.config, "saveDC") /\ op.config.saveDC # 0
  /\ Truthy(op.config, "saveAbility")
  /\ HasActor(op.token)

IsConditionCall(c) == IsCreate(c) \/ IsToggle(c)

\* C25: a save effect with a DC, an ability code and a target actor issues no
\* saving throw; the nested condition, if a name is configured, is applied
\* exactly once, then the nested damage, if a formula is configured, is rolled
\* exactly once, and unless a damage collaborator rejects the damage is applied
\* exactly once, after the condition.
C25_AlwaysFailedSave ==
  SaveApplies =>
    LET cond == Truthy(op.config, "effectCondition")
        dmg == Truthy(op.config, "damageFormula")
        first == IF cond THEN 1 ELSE 0
    IN /\ Len(SelectSeq(calls, IsConditionCall)) = first
       /\ cond => IsConditionCall(calls[1])
       /\ Len(CallsOf("rollEvaluate")) = (IF dmg THEN 1 ELSE 0)
       /\ dmg => calls[first + 1].fn = "rollEvaluate"
       /\ Len(CallsOf("applyTokenDamage")) =
            (IF dmg /\ op.fault \notin {"roll", "message"} THEN 1 ELSE 0)
       /\ \A c \in Range(calls) :
            c.fn \in {"createEmbeddedDocuments", "toggleStatusEffect",
                      "rollEvaluate", "rollToMessage", "applyTokenDamage"}

\* condition and damage both configured, no collaborator rejects
C25_Witness ==
  /\ SaveApplies
  /\ Truthy(op.config, "effectCondition")
  /\ Truthy(op.config, "damageFormula")
  /\ op.fault = "none"
  /\ Len(calls) = 4
  /\ IsCreate(calls[1])
  /\ calls[4].fn = "applyTokenDamage"

----------------------------------------------------------------------------
(* Results applied through applyResult, repeatedly and target by target *)

MaxRepeats == 3

\* save and damage effects over the placeholders and typed damage
NestedDamageConfigs ==
  [effectType : {EFFECT_SAVE}, saveDC : {15}, saveAbility : {"dex"},
   damageFormula : {"2W", "3S", "1d6"}, damageType : {"weapon", "spell", "fire"}]
    \cup [effectType : {EFFECT_DAMAGE},
          damageFormula : {"2W", "3S", "1d6"}, damageType : {"weapon", "spell", "fire"}]

EffectConfigs ==
  {[effectType |-> EFFECT_CONDITION, effectCondition |-> "spell_locked"],
   [effectType |-> EFFECT_CONDITION, effectCondition |-> "prone"],
   [effectType |-> EFFECT_DAMAGE, damageFormula |-> "2W", damageType |-> "weapon"],
   [effectType |-> EFFECT_SAVE, saveDC |-> 15, saveAbility |-> "dex",
    effectCondition |-> "spell_locked", damageFormula |-> "2W"],
   [effectType |-> EFFECT_DISARM],
   [effectType |-> EFFECT_PENALTY, penaltyType |-> "ac", penaltyValue |-> -2],
   [effectType |-> EFFECT_PENALTY, penaltyType |-> "attack", penaltyValue |-> -1,
    duration |-> 2],
   [effectType |-> EFFECT_ADVANTAGE, advantageScope |-> [single |-> "attack.all"]],
   [effectType |-> EFFECT_DISADVANTAGE,
    advantageScope |-> [list |-> <<"attack.mwak", "save.dex">>],
    advantageTarget |-> "grants"]}

\* a crit result as rollOnTable returns it
RolledResults(configs) ==
  [type : {RESULT_CRIT}, attackType : {"melee"}, tier : {2}, config : configs]

ItemSources ==
  {<<NoActor, NoItem>>, <<[id |-> "aF"], Sword>>, <<[id |-> "aF"], Bolt>>}

EffectFaults == {"none", "toggle", "create", "roll", "message", "damage", "update"}

LoopTargets == DistinctSeqs({"t1", "t2", "tX"}, MaxTargets)

\* how many times applyResult has run in the invocation observed
Times == IF Has(op, "times") THEN op.times ELSE 1

\* applyResult is called once more with the arguments of the invocation observed
ApplyResultAgain ==
  /\ pc = "done"
  /\ op.fn = "applyResult"
  /\ Times < MaxRepeats
  /\ LET th == applyResult([calls |-> calls, statuses |-> statuses,
                            rejected |-> FALSE],
                           op.result, op.token, op.source[1], op.source[2],
                           Env(op.fault))
     IN /\ calls' = th.calls
        /\ statuses' = th.statuses
        /\ op' = ("times" :> Times + 1)
                   @@ [op EXCEPT !.rejected = @ \/ th.rejected]
  /\ UNCHANGED <<hostVars, pc, applyEffects, combat, selectVars, moduleSettings>>

\* the loop of handleCriticalHit over the hit targets, with the result drawn
CritLoopOver(result, targets, fault) ==
  /\ pc = "idle"
  /\ Observe(CritLoop(Thread(statuses), result, targets,
                      [actor |-> Attacker, item |-> Sword], HookEnv(fault, NoDraw)),
             [fn |-> "critLoop", result |-> result, targets |-> targets,
              fault |-> fault])

NextApply ==
  \/ Idle /\ \E result \in RolledResults(EffectConfigs \cup NestedDamageConfigs),
                token \in {"t1", "tX"}, source \in ItemSources,
                fault \in EffectFaults :
               ApplyResult(result, token, source, fault)
  \/ ApplyResultAgain
  \/ Idle /\ \E result \in RolledResults(EffectConfigs), targets \in LoopTargets,
                fault \in EffectFaults :
               CritLoopOver(result, targets, fault)
  \/ Idle /\ \E result \in RolledResults(EffectConfigs), targets \in LoopTargets,
                fault \in EffectFaults :
               ApplyFumbleResult(result, "tF", targets, <<[id |-> "aF"], Sword>>,
                                 fault)
  \/ Return

SpecApply == Init /\ [][NextApply]_vars

----------------------------------------------------------------------------
(* C26: no memory of applied effects *)

\* the result creates an effect document on the target: a custom condition, a
\* penalty or an advantage/disadvantage with a declared scope
CreatesDocument(config) ==
  \/ config.effectType = EFFECT_CONDITION /\ config.effectCondition = "spell_locked"
  \/ config.effectType = EFFECT_PENALTY
  \/ config.effectType \in {EFFECT_ADVANTAGE, EFFECT_DISADVANTAGE}

\* C26: each application of a custom-condition, penalty or advantage/disadvantage
\* result to an actor issues exactly one effect-creation call carrying exactly one
\* document: after k applications of the same result to the same actor the calls
\* are k creation calls on that actor, all with the same document, and no other
\* host call.
C26_NoMemory ==
  (Done("applyResult") /\ CreatesDocument(op.result.config) /\ HasActor(op.token)) =>
    /\ Len(calls) = Times
    /\ \A i \in 1..Len(calls) :
         /\ IsCreate(calls[i])
         /\ calls[i].actor = TokenActor[op.token]
         /\ Len(calls[i].docs) = 1
         /\ calls[i] = calls[1]

\* the same penalty applied three times to the same actor
C26_Witness ==
  /\ Done("applyResult")
  /\ op.result.config.effectType = EFFECT_PENALTY
  /\ op.token = "t1"
  /\ Times = 3
  /\ Len(calls) = 3
  /\ calls[3] = calls[1]

----------------------------------------------------------------------------
(* C27: a collaborator failure stays at the effect it occurred in *)

ChatPositions == {i \in 1..Len(calls) : IsChat(calls[i])}

\* the position of the k-th chat post
ChatAt(k) ==
  CHOOSE p \in ChatPositions : Cardinality({q \in ChatPositions : q <= p}) = k

\* applying the result to the target issues at least one host call
ActsOn(config, target, before) ==
  CASE config.effectType = EFFECT_DISARM -> TRUE
    [] config.effectType = EFFECT_CONDITION /\ config.effectCondition = "prone" ->
         HasActor(target) /\ "prone" \notin before[TokenActor[target]]
    [] OTHER -> HasActor(target)

TargetActors(targets) ==
  LET withActor == SelectSeq(targets, HasActor)
  IN [i \in 1..Len(withActor) |-> TokenActor[withActor[i]]]

\* C27: whichever effect collaborator rejects (status toggle, effect creation,
\* dice roll, roll message, damage application, item update), applyResult
\* completes normally; the crit loop completes normally, posts the chat message
\* for every target in order and after each post still issues the effect calls
\* for that target; the fumble 'grants' loop completes normally and issues the
\* creation call for every target with an actor, in order.
C27_FailureContained ==
  /\ Done("applyResult") => ~op.rejected
  /\ Done("critLoop") =>
       /\ ~op.rejected
       /\ Cardinality(ChatPositions) = Len(op.targets)
       /\ \A k \in 1..Len(op.targets) :
            /\ calls[ChatAt(k)].target = op.targets[k]
            /\ ActsOn(op.result.config, op.targets[k], op.before) =>
                 /\ ChatAt(k) < Len(calls)
                 /\ ~IsChat(calls[ChatAt(k) + 1])
  /\ (Done("applyFumbleResult") /\ RoutesToTargets(op.result.config, op.targets)) =>
       /\ ~op.rejected
       /\ CreatedOn = TargetActors(op.targets)

\* the dice roll rejects for the first target; the second is still shown and rolled
C27_Witness ==
  /\ Done("critLoop")
  /\ op.fault = "roll"
  /\ op.targets = <<"t1", "t2">>
  /\ op.result.config.effectType = EFFECT_DAMAGE
  /\ Len(calls) = 4
  /\ calls[2].fn = "rollEvaluate"
  /\ IsChat(calls[3])
  /\ calls[4].fn = "rollEvaluate"

----------------------------------------------------------------------------
(* C28: nested damage of a save effect ignores the source item *)

\* the formula with W read as d6 and S as d8
WithoutItemFormula(formula) ==
  CASE formula = "2W" -> "2d6"
    [] formula = "3S" -> "3d8"
    [] OTHER -> formula

WithoutItemType(damageType) ==
  CASE damageType = "weapon" -> "bludgeoning"
    [] damageType = "spell" -> "force"
    [] OTHER -> damageType

\* C28: through applyResult with effect kind 'save' the nested formula NW is
\* rolled as Nd6 and NS as Nd8, and the nested damage type 'weapon' is reported
\* as 'bludgeoning' and 'spell' as 'force', whatever source item applyResult was
\* given; a direct 'damage' effect with a source item that has a damage entry
\* rolls that entry's die and reports that entry's damage type.
C28_NestedDamageWithoutItem ==
  (/\ Done("applyResult")
   /\ Has(op.result.config, "damageFormula")
   /\ Has(op.result.config, "damageType")
   /\ HasActor(op.token)
   /\ op.fault = "none"
   /\ Times = 1) =>
    LET config == op.result.config
        item == op.source[2]
        rolls == CallsOf("rollEvaluate")
        posts == CallsOf("rollToMessage")
    IN /\ Len(rolls) = 1
       /\ Len(posts) = 1
       /\ config.effectType = EFFECT_SAVE =>
            /\ rolls[1].formula = WithoutItemFormula(config.damageFormula)
            /\ posts[1].damageType = WithoutItemType(config.damageType)
       /\ (config.effectType = EFFECT_DAMAGE /\ HasParts(item)) =>
            /\ config.damageFormula = "2W" =>
                 rolls[1].formula = "2" \o DieMatch(item.parts[1][1])
            /\ config.damageFormula = "3S" =>
                 rolls[1].formula = "3" \o DieMatch(item.parts[1][1])
            /\ config.damageType \in {"weapon", "spell"} =>
                 posts[1].damageType = item.parts[1][2]

\* a save effect with nested 2W weapon damage, the attack made with a d8 sword
C28_Witness ==
  /\ Done("applyResult")
  /\ op.result.config.effectType = EFFECT_SAVE
  /\ Has(op.result.config, "damageType")
  /\ op.result.config.damageFormula = "2W"
  /\ op.result.config.damageType = "weapon"
  /\ op.source[2] = Sword
  /\ op.fault = "none"
  /\ CallsOf("rollEvaluate") = <<[fn |-> "rollEvaluate", formula |-> "2d6"]>>
  /\ Len(calls) = 3
  /\ calls[2].damageType = "bludgeoning"

----------------------------------------------------------------------------
(* C29: crit and fumble for one attack event *)

\* C29 as stated: for no attack event do both the crit flow and the fumble flow
\* run.
C29_AsStated ==
  Done("onAttackRollComplete") => ~(FlowRan(SOUNDS_CRIT) /\ FlowRan(SOUNDS_FUMBLE))

----------------------------------------------------------------------------
(* TableImporter: first import, version check and re-import *)

ATTACK_ORDER == <<"melee", "ranged", "spell">>

RESULT_ORDER == <<"crits", "fumbles">>

\* the 24 table names in the order of the three nested loops of importTables
ImportOrder ==
  [i \in 1..(4 * 3 * 2) |->
     ImportedTableName(((i - 1) \div 6) + 1,
                       ATTACK_ORDER[(((i - 1) % 6) \div 2) + 1],
                       RESULT_ORDER[((i - 1) % 2) + 1])]

\* v.split('.')
RECURSIVE Split(_)
Split(v) ==
  IF IndexOf(v, ".") = -1
    THEN <<v>>
    ELSE <<SubSeq(v, 1, IndexOf(v, "."))>>
           \o Split(SubSeq(v, IndexOf(v, ".") + 2, Len(v)))

\* parseInt(n, 10) || 0
ParseIntOrZero(n) == IF IsDigits(n) THEN ParseInt(n) ELSE 0

\* parts[i] || 0 for the 1-based position i
PartOrZero(parts, i) == IF i <= Len(parts) THEN ParseIntOrZero(parts[i]) ELSE 0

RECURSIVE NewerFrom(_, _, _)
NewerFrom(parts1, parts2, i) ==
  IF i > Len(parts1) /\ i > Len(parts2)
    THEN FALSE
    ELSE IF PartOrZero(parts1, i) > PartOrZero(parts2, i) THEN TRUE
    ELSE IF PartOrZero(parts1, i) < PartOrZero(parts2, i) THEN FALSE
    ELSE NewerFrom(parts1, parts2, i + 1)

isNewerVersion(v1, v2) == NewerFrom(Split(v1), Split(v2), 1)

hasImported(settings) == settings.tablesImported

getImportedVersion(settings) == settings.tablesVersion

needsUpdate(settings, moduleVersion) ==
  IF ~hasImported(settings)
    THEN FALSE
    ELSE IF getImportedVersion(settings) = ""
      THEN TRUE
      ELSE isNewerVersion(moduleVersion, getImportedVersion(settings))

\* the importer's view of the host while one of its methods runs
ImporterThread ==
  [calls |-> <<>>, tables |-> tables, settings |-> moduleSettings, world |-> world]

Did(ith, call) == [ith EXCEPT !.calls = Append(@, call)]

SettingsSet(ith, key, value) ==
  [Did(ith, [fn |-> "settings.set", key |-> key, value |-> value])
     EXCEPT !.settings[key] = value]

getOrCreateFolder(ith, env) ==
  IF ith.world.folder
    THEN ith
    ELSE IF env.fault = "folder"
      THEN Did(ith, [fn |-> "Folder.create"])
      ELSE [Did(ith, [fn |-> "Folder.create"]) EXCEPT !.world.folder = TRUE]

\* mutant: only the tables filed in the module's folder count as existing
importTable_FiledOnly(ith, tableName, env) ==
  LET fetched == Did(ith, [fn |-> "fetch", name |-> tableName])
      created == Did(fetched, [fn |-> "RollTable.create", name |-> tableName,
                               folder |-> ith.world.folder])
  IN IF tableName \in ith.world.inFolder
       THEN ith
       ELSE IF tableName \in env.unloadable
         THEN fetched
         ELSE IF env.fault = "create"
           THEN created
           ELSE [created EXCEPT !.tables = @ \cup {tableName},
                                !.world.inFolder =
                                   IF ith.world.folder THEN @ \cup {tableName} ELSE @]

\* importTable for one table name; the folder handed in is the world's folder, or
\* null when there is none
importTable(ith, tableName, env) ==
  LET fetched == Did(ith, [fn |-> "fetch", name |-> tableName])
      created == Did(fetched, [fn |-> "RollTable.create", name |-> tableName,
                               folder |-> ith.world.folder])
  IN IF tableName \in ith.tables
       THEN ith
       ELSE IF tableName \in env.unloadable
         THEN fetched
         ELSE IF env.fault = "create"
           THEN created
           ELSE [created EXCEPT !.tables = @ \cup {tableName},
                                !.world.inFolder =
                                   IF ith.world.folder THEN @ \cup {tableName} ELSE @]

RECURSIVE ImportEach(_, _, _)
ImportEach(ith, names, env) ==
  IF names = <<>>
    THEN ith
    ELSE ImportEach(importTable(ith, Head(names), env), Tail(names), env)

importTables(ith, env) ==
  IF ~env.isGM
    THEN ith
    ELSE IF hasImported(ith.settings)
      THEN ith
      ELSE
        LET told == Did(ith, [fn |-> "notifications.info", key |-> "ImportingTables"])
            imported == ImportEach(getOrCreateFolder(told, env), ImportOrder, env)
            flagged == SettingsSet(imported, "tablesImported", TRUE)
            stamped == SettingsSet(flagged, "tablesVersion", ith.world.moduleVersion)
        IN Did(stamped, [fn |-> "notifications.info", key |-> "TablesImported"])

reimportTables(ith, env) ==
  IF ~env.isGM
    THEN Did(ith, [fn |-> "notifications.warn", key |-> "GMRequired"])
    ELSE
      LET told == Did(ith, [fn |-> "notifications.info", key |-> "ReimportingTables"])
          filed == ith.tables \cap ith.world.inFolder
          emptied == IF ith.world.folder
                       THEN [Did(told, [fn |-> "tables.delete", names |-> filed])
                               EXCEPT !.tables = @ \ filed, !.world.inFolder = {}]
                       ELSE told
      IN importTables(SettingsSet(emptied, "tablesImported", FALSE), env)

\* mutant: declining the update stores nothing
promptForUpdate_NoStore(ith, env) ==
  IF ~env.isGM
    THEN ith
    ELSE
      LET asked == Did(ith, [fn |-> "Dialog.confirm",
                             oldVersion |-> getImportedVersion(ith.settings),
                             newVersion |-> ith.world.moduleVersion])
      IN IF env.confirmed
           THEN reimportTables(asked, env)
           ELSE Did(asked, [fn |-> "notifications.info", key |-> "UpdateSkipped"])

promptForUpdate(ith, env) ==
  IF ~env.isGM
    THEN ith
    ELSE
      LET asked == Did(ith, [fn |-> "Dialog.confirm",
                             oldVersion |-> getImportedVersion(ith.settings),
                             newVersion |-> ith.world.moduleVersion])
      IN IF env.confirmed
           THEN reimportTables(asked, env)
           ELSE Did(SettingsSet(asked, "tablesVersion", ith.world.moduleVersion),
                    [fn |-> "notifications.info", key |-> "UpdateSkipped"])

checkForUpdates(ith, env) ==
  IF ~env.isGM
    THEN ith
    ELSE IF needsUpdate(ith.settings, ith.world.moduleVersion)
      THEN promptForUpdate(ith, env)
      ELSE ith

----------------------------------------------------------------------------
(* The importer as a system *)

ModuleVersions == {"1.2.0", "1.10.0", "2.0"}

\* the sets of table sources that fail to load during one import
UnloadableSets ==
  {{}, {"tier1-melee-crits"}, {"tier1-melee-crits", "tier4-spell-fumbles"}}

\* tables the GM is seen to delete or to create by hand
HandledTables == {"tier1-melee-crits", "tier2-ranged-crits"}

ImportFaults == {"none", "folder", "create"}

ImportEnvs ==
  [isGM : BOOLEAN, confirmed : BOOLEAN, unloadable : UnloadableSets,
   fault : ImportFaults]

ObserveImport(ith, fn, env) ==
  /\ pc = "idle"
  /\ calls' = ith.calls
  /\ tables' = ith.tables
  /\ moduleSettings' = ith.settings
  /\ world' = ith.world
  /\ op' = [fn |-> fn, env |-> env, tables |-> tables, settings |-> moduleSettings,
            world |-> world]
  /\ pc' = "done"
  /\ UNCHANGED <<applyEffects, useActorLevelSetting, fixedTierSetting, statuses,
                 combat, hooks>>

ImportTables(env) == ObserveImport(importTables(ImporterThread, env), "importTables", env)

CheckForUpdates(env) ==
  ObserveImport(checkForUpdates(ImporterThread, env), "checkForUpdates", env)

ReimportTables(env) ==
  ObserveImport(reimportTables(ImporterThread, env), "reimportTables", env)

\* the module is replaced by another version
ModuleUpdated(version) ==
  /\ pc = "idle"
  /\ version # world.moduleVersion
  /\ world' = [world EXCEPT !.moduleVersion = version]
  /\ UNCHANGED <<applyEffects, selectVars, moduleSettings, statuses, combat, pc, op,
                 calls, hooks>>

\* the GM deletes a roll table, filed or not
GMDeleteTable(name) ==
  /\ pc = "idle"
  /\ name \in tables
  /\ tables' = tables \ {name}
  /\ world' = [world EXCEPT !.inFolder = @ \ {name}]
  /\ UNCHANGED <<applyEffects, useActorLevelSetting, fixedTierSetting, moduleSettings,
                 statuses, combat, pc, op, calls, hooks>>

NextImport ==
  \/ Idle /\ \E env \in ImportEnvs : ImportTables(env)
  \/ Idle /\ \E env \in ImportEnvs : CheckForUpdates(env)
  \/ Idle /\ \E env \in ImportEnvs : ReimportTables(env)
  \/ \E version \in ModuleVersions : ModuleUpdated(version)
  \/ \E name \in HandledTables : GMDeleteTable(name)
  \/ \E name \in HandledTables : HostCreateTable(name)
  \/ Return

SpecImport == Init /\ [][NextImport]_vars

----------------------------------------------------------------------------
(* C21: the first import *)

\* the table names RollTable.create was called for, in call order
CreatedTables ==
  LET cs == CallsOf("RollTable.create") IN [i \in 1..Len(cs) |-> cs[i].name]

ImportSkipped ==
  Done("importTables") /\ (~op.env.isGM \/ op.settings.tablesImported)

ImportRuns ==
  Done("importTables") /\ op.env.isGM /\ ~op.settings.tablesImported

----------------------------------------------------------------------------
(* C22: the version check *)

DialogShown == CallsOf("Dialog.confirm") # <<>>

\* C22: after checkForUpdates by a GM, needsUpdate() is false; if the dialog was
\* shown, accepted or declined, the stored tables version equals the module
\* version; a check that starts with needsUpdate() false shows no dialog; for a
\* non-GM user checkForUpdates shows no dialog, issues no host call and writes no
\* setting.
C22_VersionSettled ==
  Done("checkForUpdates") =>
    /\ op.env.isGM =>
         /\ ~needsUpdate(moduleSettings, world.moduleVersion)
         /\ DialogShown => moduleSettings.tablesVersion = world.moduleVersion
         /\ DialogShown <=> needsUpdate(op.settings, op.world.moduleVersion)
    /\ ~op.env.isGM =>
         /\ calls = <<>>
         /\ moduleSettings = op.settings
         /\ tables = op.tables

\* the GM declines the update from 1.2.0 to 1.10.0: the version is stored
C22_Witness ==
  /\ Done("checkForUpdates")
  /\ op.env.isGM
  /\ ~op.env.confirmed
  /\ op.settings.tablesVersion = "1.2.0"
  /\ op.world.moduleVersion = "1.10.0"
  /\ DialogShown
  /\ moduleSettings.tablesVersion = "1.10.0"
  /\ tables = op.tables

----------------------------------------------------------------------------
(* MidiQolHooks: register and unregister *)

MaxHooks == 4     \* hook ids the host hands out

\* Hooks.on(ATTACK_ROLL_COMPLETE, handler): the host files the handler and returns
\* a fresh id
HostHooksOn(h) ==
  [h EXCEPT !.handlers = @ \cup {h.nextId}, !.nextId = @ + 1]

\* Hooks.off(ATTACK_ROLL_COMPLETE, id)
HostHooksOff(h, id) == [h EXCEPT !.handlers = @ \ {id}]

\* register(); active is game.modules.get('midi-qol')?.active
register(h, active) ==
  IF ~active
    THEN [hooks |-> h,
          calls |-> <<[fn |-> "notifications.error", key |-> "MidiQolRequired"]>>]
    ELSE [hooks |-> [HostHooksOn(h) EXCEPT !.hookId = [id |-> h.nextId]],
          calls |-> <<[fn |-> "Hooks.on", id |-> h.nextId]>>]

unregister(h) ==
  IF Has(h.hookId, "id")
    THEN [hooks |-> [HostHooksOff(h, h.hookId.id) EXCEPT !.hookId = NoHook],
          calls |-> <<[fn |-> "Hooks.off", id |-> h.hookId.id]>>]
    ELSE [hooks |-> h, calls |-> <<>>]

ObserveHooks(out, record) ==
  /\ pc = "idle"
  /\ hooks' = out.hooks
  /\ calls' = out.calls
  /\ op' = record @@ [before |-> hooks]
  /\ pc' = "done"
  /\ UNCHANGED <<applyEffects, selectVars, moduleSettings, statuses, combat, world>>

Register(active) ==
  /\ active => hooks.nextId <= MaxHooks
  /\ ObserveHooks(register(hooks, active), [fn |-> "register", active |-> active])

Unregister == ObserveHooks(unregister(hooks), [fn |-> "unregister"])

\* a critical hit on no target, reported by the host
CritWorkflow ==
  [actor |-> Attacker, item |-> Sword, details |-> [args |-> TRUE, level |-> 5],
   targets |-> <<>>, isCritical |-> TRUE, isFumble |-> FALSE]

\* every handler the host holds is called with the workflow, one after the other
RECURSIVE CallHandlers(_, _, _)
CallHandlers(th, n, env) ==
  IF n = 0
    THEN th
    ELSE CallHandlers(onAttackRollComplete(th, CritWorkflow, env), n - 1, env)

\* Hooks.callAll(ATTACK_ROLL_COMPLETE, workflow)
HostAttackRollComplete ==
  /\ pc = "idle"
  /\ Observe(CallHandlers(Thread(statuses), Cardinality(hooks.handlers),
                          HookEnv("none", NoDraw)),
             [fn |-> "attackRollComplete", handlers |-> hooks.handlers])

NextRegister ==
  \/ Idle /\ \E active \in BOOLEAN : Register(active)
  \/ Idle /\ Unregister
  \/ Idle /\ HostAttackRollComplete
  \/ Return

SpecRegister == Init /\ [][NextRegister]_vars

----------------------------------------------------------------------------
(* C30: at most one handler *)

\* C30 as stated: after any sequence of register() and unregister() calls at
\* most one handler of the module is registered with the host, and after a
\* sequence ending in unregister() none is; register() with the dependency
\* inactive registers nothing and shows one error notification; unregister()
\* without a prior register() is a no-op.
C30_AsStated ==
  /\ Cardinality(hooks.handlers) <= 1
  /\ Done("unregister") => hooks.handlers = {}
  /\ (Done("register") /\ ~op.active) =>
       /\ hooks = op.before
       /\ Len(calls) = 1
       /\ calls[1].fn = "notifications.error"
  /\ (Done("unregister") /\ ~Has(op.before.hookId, "id")) =>
       /\ hooks = op.before
       /\ calls = <<>>

====
